---- MODULE Spec2Model ----
(***************************************************************************)
(* A model of pipeline-service-exporter's overhead and liveness analysis:  *)
(* the deadlock tracker of the polling collectors, the throttle tagging    *)
(* and overhead accounting of ReconcileOverhead, the gap reconstruction    *)
(* of calculateGaps, the noise filter, and the update filters              *)
(* overheadGapEventFilter and startTimeEventFilter.                        *)
(*                                                                         *)
(* Times are integers (milliseconds); NoTime stands for a nil *metav1.Time.*)
(***************************************************************************)
EXTENDS Integers, Sequences, FiniteSets, TLC

VARIABLES
    \* ---- DeadlockTracker and its polling cycle
    trackerFilter,      \* d.filter
    flaggedNamespaces,  \* d.flaggedNamespaces
    lastScan,           \* d.lastScan    : namespace -> set of names
    currentScan,        \* d.currentScan : namespace -> set of names
    gauge,              \* the PollCollector's gauge, per namespace
    cyclePc,            \* "idle" | "polling"
    polled,             \* objects already polled in this cycle
    cycles,             \* polling cycles begun so far
    streak,             \* history: consecutive scans an object has failed in
    incFor,             \* history: IncCollector calls made for an object in its streak
    lastPoll,           \* history: what the latest PerformDeadlockDetection did
    \* ---- filter(numerator, denominator)
    filterIn,           \* [env, numerator, denominator]
    filterOut,          \* unset, or the boolean filter returned
    \* ---- sortTaskRunsForGapCalculations and calculateGaps
    gapIn,              \* [pr, trs]: a run and the stored TaskRuns
    gapOut,             \* unset, or [abort, sorted, reverse, entries]
    \* ---- ReconcileOverhead and the objects it reads
    plan,               \* the timestamps the run and its steps get
    pipelineRun,        \* the PipelineRun as stored
    cachedRun,          \* the PipelineRun as r.client.Get returns it
    taskRuns,           \* the TaskRuns as stored, by name
    execution,          \* observations of overheadCollector.execution
    scheduling,         \* observations of overheadCollector.scheduling
    labelPatches,       \* history: label-setting Patches applied to the run
    lastRec,            \* history: what the latest ReconcileOverhead did
    \* ---- ReconcileOverhead on a complete run
    analysisIn,         \* [pr, trs, errs]: a run, the stored TaskRuns, the failing Gets
    analysisOut,        \* unset, or what ReconcileOverhead did with it
    startOut,           \* unset, or what startTimeEventFilter.Update did with it
    \* ---- overheadGapEventFilter
    lastUpdate,         \* history: the latest update event and what Update returned
    doneTriggers,       \* history: updates of a done run that Update let through
    \* ---- pipelineRunPipelineRef and taskRef
    identIn,            \* [pr, labels]: a run and the labels of a step
    runRefOut,          \* unset, or the string pipelineRunPipelineRef returned
    taskRefOut,         \* unset, or the string taskRef returned
    \* ---- buildLastScanCopy on maps held by reference
    scanHeap,           \* the inner maps allocated so far: address -> set of names
    currentRef,         \* d.currentScan : namespace -> address of its inner map
    lastRef,            \* d.lastScan    : namespace -> address of its inner map
    resetKeys,          \* history: the keys the latest copy handed to innerReset
    copied,             \* history: unset, or the current scan as it was when copied
    \* ---- the reference-resolution wait-time filters
    waitObj,            \* the watched TaskRun or PipelineRun, as last updated
    waitHist,           \* what f.waitDuration has observed, in order
    waitUpdates,        \* updates of the object so far
    lastWait            \* history: the latest event and what the filter did with it

trackerVars == <<trackerFilter, flaggedNamespaces, lastScan, currentScan, gauge,
                 cyclePc, polled, cycles, streak, incFor, lastPoll>>

filterVars == <<filterIn, filterOut>>
gapVars == <<gapIn, gapOut>>

recVars == <<plan, pipelineRun, cachedRun, taskRuns, execution, scheduling,
             labelPatches, lastRec>>

analysisVars == <<analysisIn, analysisOut, startOut>>

eventVars == <<lastUpdate, doneTriggers>>

identVars == <<identIn, runRefOut, taskRefOut>>

copyVars == <<scanHeap, currentRef, lastRef, resetKeys, copied>>

waitVars == <<waitObj, waitHist, waitUpdates, lastWait>>

vars == <<trackerVars, filterVars, gapVars, recVars, analysisVars, eventVars, identVars,
         copyVars,
         waitVars>>

Max(a, b) == IF a >= b THEN a ELSE b

(***************************************************************************)
(* Liveness / deadlock tracker                                             *)
(***************************************************************************)

\* Polling cycles explored.
MaxCycles == 3

Namespaces == {"ns1", "ns2", "ns3"}
Names == {"a", "b"}
\* The objects a poll may list: <<name, namespace>>.
Objects == {<<"a", "ns1">>, <<"b", "ns1">>, <<"a", "ns2">>, <<"a", "ns3">>}
NameOf(o) == o[1]
NsOf(o) == o[2]

EmptyScan == [ns \in {} |-> {}]

\* PollCollector.IncCollector / ZeroCollector on the gauge of one namespace.
IncCollector(g, ns) == [g EXCEPT ![ns] = @ + 1]
ZeroCollector(g, ns) == [g EXCEPT ![ns] = 0]

\* innerReset(collector, keys): resets is whether the collector's reset zeroes
\* the gauges of the keys.
innerReset(g, keys, resets) ==
    IF resets THEN [ns \in DOMAIN g |-> IF ns \in keys THEN 0 ELSE g[ns]] ELSE g

\* buildLastScanCopy: the deep copy of m (the collector part is innerReset).
BuildLastScanCopy_Lost(m) == [ns \in {} |-> {}]
buildLastScanCopy(m) == [ns \in DOMAIN m |-> m[ns]]

\* zeroOutPriorHitNamespacesThatAreNowEmpty, as it acts on the gauge.
ZeroOutNoNamespace(g, last, current) == g
zeroOutPriorHitNamespacesThatAreNowEmpty(g, last, current) ==
    [ns \in DOMAIN g |->
        IF ns \in DOMAIN last /\ ns \notin DOMAIN current THEN 0 ELSE g[ns]]

\* A tracker d is [filter, flaggedNamespaces, lastScan, currentScan, gauge, log,
\* asked]; asked tells whether d.deadlocked() was called;
\* log lists the collector calls of one PerformDeadlockDetection.
PDD_IgnoresFilter(d, name, ns, deadlocked) ==
    LET objMap == IF ns \in DOMAIN d.currentScan THEN d.currentScan[ns] ELSE {}
        d1 == [d EXCEPT !.currentScan =
                  [k \in DOMAIN d.currentScan \cup {ns} |->
                      IF k = ns THEN objMap ELSE d.currentScan[k]]]
        cacheCopyObjMap == IF ns \in DOMAIN d.lastScan THEN d.lastScan[ns] ELSE {}
        objHitLastTime == name \in cacheCopyObjMap
        d2 == IF deadlocked
              THEN LET d3 == [d1 EXCEPT !.currentScan[ns] = @ \cup {name},
                                        !.asked = TRUE]
                   IN  IF objHitLastTime
                       THEN [d3 EXCEPT !.gauge = IncCollector(@, ns),
                                       !.log = Append(@, "Inc"),
                                       !.flaggedNamespaces = @ \cup {ns}]
                       ELSE d3
              ELSE [d1 EXCEPT !.asked = TRUE]
    IN  IF ns \in d2.flaggedNamespaces THEN d2
        ELSE [d2 EXCEPT !.gauge = ZeroCollector(@, ns), !.log = Append(@, "Zero")]

PDD_IncOnFirstHit(d, name, ns, deadlocked) ==
    IF ns \in d.filter THEN d
    ELSE
    LET objMap == IF ns \in DOMAIN d.currentScan THEN d.currentScan[ns] ELSE {}
        d1 == [d EXCEPT !.currentScan =
                  [k \in DOMAIN d.currentScan \cup {ns} |->
                      IF k = ns THEN objMap ELSE d.currentScan[k]]]
        d2 == IF deadlocked
              THEN [d1 EXCEPT !.currentScan[ns] = @ \cup {name},
                              !.gauge = IncCollector(@, ns),
                              !.asked = TRUE,
                              !.log = Append(@, "Inc"),
                              !.flaggedNamespaces = @ \cup {ns}]
              ELSE [d1 EXCEPT !.asked = TRUE]
    IN  IF ns \in d2.flaggedNamespaces THEN d2
        ELSE [d2 EXCEPT !.gauge = ZeroCollector(@, ns), !.log = Append(@, "Zero")]

PDD_ZeroesWhenPassing(d, name, ns, deadlocked) ==
    IF ns \in d.filter THEN d
    ELSE
    LET objMap == IF ns \in DOMAIN d.currentScan THEN d.currentScan[ns] ELSE {}
        d1 == [d EXCEPT !.currentScan =
                  [k \in DOMAIN d.currentScan \cup {ns} |->
                      IF k = ns THEN objMap ELSE d.currentScan[k]]]
        cacheCopyObjMap == IF ns \in DOMAIN d.lastScan THEN d.lastScan[ns] ELSE {}
        objHitLastTime == name \in cacheCopyObjMap
        d2 == IF deadlocked
              THEN LET d3 == [d1 EXCEPT !.currentScan[ns] = @ \cup {name},
                                        !.asked = TRUE]
                   IN  IF objHitLastTime
                       THEN [d3 EXCEPT !.gauge = IncCollector(@, ns),
                                       !.log = Append(@, "Inc"),
                                       !.flaggedNamespaces = @ \cup {ns}]
                       ELSE d3
              ELSE [d1 EXCEPT !.asked = TRUE]
    IN  IF deadlocked /\ ns \in d2.flaggedNamespaces THEN d2
        ELSE [d2 EXCEPT !.gauge = ZeroCollector(@, ns), !.log = Append(@, "Zero")]

PDD_IncOncePerNamespace(d, name, ns, deadlocked) ==
    IF ns \in d.filter THEN d
    ELSE
    LET objMap == IF ns \in DOMAIN d.currentScan THEN d.currentScan[ns] ELSE {}
        d1 == [d EXCEPT !.currentScan =
                  [k \in DOMAIN d.currentScan \cup {ns} |->
                      IF k = ns THEN objMap ELSE d.currentScan[k]]]
        cacheCopyObjMap == IF ns \in DOMAIN d.lastScan THEN d.lastScan[ns] ELSE {}
        objHitLastTime == name \in cacheCopyObjMap
        d2 == IF deadlocked
              THEN LET d3 == [d1 EXCEPT !.currentScan[ns] = @ \cup {name},
                                        !.asked = TRUE]
                   IN  IF objHitLastTime /\ ns \notin d.flaggedNamespaces
                       THEN [d3 EXCEPT !.gauge = IncCollector(@, ns),
                                       !.log = Append(@, "Inc"),
                                       !.flaggedNamespaces = @ \cup {ns}]
                       ELSE d3
              ELSE [d1 EXCEPT !.asked = TRUE]
    IN  IF ns \in d2.flaggedNamespaces THEN d2
        ELSE [d2 EXCEPT !.gauge = ZeroCollector(@, ns), !.log = Append(@, "Zero")]

PDD_NeverZeroes(d, name, ns, deadlocked) ==
    IF ns \in d.filter THEN d
    ELSE
    LET objMap == IF ns \in DOMAIN d.currentScan THEN d.currentScan[ns] ELSE {}
        d1 == [d EXCEPT !.currentScan =
                  [k \in DOMAIN d.currentScan \cup {ns} |->
                      IF k = ns THEN objMap ELSE d.currentScan[k]]]
        cacheCopyObjMap == IF ns \in DOMAIN d.lastScan THEN d.lastScan[ns] ELSE {}
        objHitLastTime == name \in cacheCopyObjMap
    IN  IF deadlocked
        THEN LET d3 == [d1 EXCEPT !.currentScan[ns] = @ \cup {name},
                                  !.asked = TRUE]
             IN  IF objHitLastTime
                 THEN [d3 EXCEPT !.gauge = IncCollector(@, ns),
                                 !.log = Append(@, "Inc"),
                                 !.flaggedNamespaces = @ \cup {ns}]
                 ELSE d3
        ELSE [d1 EXCEPT !.asked = TRUE]

PerformDeadlockDetection(d, name, ns, deadlocked) ==
    IF ns \in d.filter THEN d
    ELSE
    LET objMap == IF ns \in DOMAIN d.currentScan THEN d.currentScan[ns] ELSE {}
        \* d.currentScan[ns] = objMap, also when nothing is failing
        d1 == [d EXCEPT !.currentScan =
                  [k \in DOMAIN d.currentScan \cup {ns} |->
                      IF k = ns THEN objMap ELSE d.currentScan[k]]]
        cacheCopyObjMap == IF ns \in DOMAIN d.lastScan THEN d.lastScan[ns] ELSE {}
        objHitLastTime == name \in cacheCopyObjMap
        \* d.deadlocked() is called
        d2 == IF deadlocked
              THEN LET d3 == [d1 EXCEPT !.currentScan[ns] = @ \cup {name},
                                        !.asked = TRUE]
                   IN  IF objHitLastTime
                       THEN [d3 EXCEPT !.gauge = IncCollector(@, ns),
                                       !.log = Append(@, "Inc"),
                                       !.flaggedNamespaces = @ \cup {ns}]
                       ELSE d3
              ELSE [d1 EXCEPT !.asked = TRUE]
    IN  IF ns \in d2.flaggedNamespaces THEN d2
        ELSE [d2 EXCEPT !.gauge = ZeroCollector(@, ns), !.log = Append(@, "Zero")]

Tracker == [filter |-> trackerFilter, flaggedNamespaces |-> flaggedNamespaces,
            lastScan |-> lastScan, currentScan |-> currentScan,
            gauge |-> gauge, log |-> << >>, asked |-> FALSE]

NoPoll == [kind |-> "none"]

TrackerStart ==
    /\ trackerFilter \in {{}, {"ns3"}}
    /\ flaggedNamespaces = {}
    /\ lastScan = EmptyScan
    /\ currentScan = EmptyScan
    /\ gauge = [ns \in Namespaces |-> 0]
    /\ cyclePc = "idle"
    /\ polled = {}
    /\ cycles = 0
    /\ streak = [o \in Objects |-> 0]
    /\ incFor = [o \in Objects |-> 0]
    /\ lastPoll = NoPoll

\* The start of a polling pass: the previous scan becomes a deep copy of the
\* current one, and the current scan and the flagged namespaces start empty.
BeginCycle ==
    /\ cyclePc = "idle"
    /\ cycles < MaxCycles
    /\ \E resets \in BOOLEAN :
          gauge' = innerReset(gauge, DOMAIN currentScan, resets)
    /\ lastScan' = buildLastScanCopy(currentScan)
    /\ currentScan' = EmptyScan
    /\ flaggedNamespaces' = {}
    /\ cyclePc' = "polling"
    /\ polled' = {}
    /\ cycles' = cycles + 1
    /\ lastPoll' = NoPoll
    /\ UNCHANGED <<trackerFilter, streak, incFor>>

CountInc(log) == Cardinality({i \in DOMAIN log : log[i] = "Inc"})

\* One object of the listing is polled; deadlocked is what d.deadlocked() returns.
Poll(o, deadlocked) ==
    /\ cyclePc = "polling"
    /\ o \notin polled
    /\ LET d == PerformDeadlockDetection(Tracker, NameOf(o), NsOf(o), deadlocked)
           evaluated == d.asked
       IN  /\ flaggedNamespaces' = d.flaggedNamespaces
           /\ lastScan' = d.lastScan
           /\ currentScan' = d.currentScan
           /\ gauge' = d.gauge
           /\ streak' = IF ~evaluated THEN streak
                        ELSE [streak EXCEPT ![o] = IF deadlocked THEN @ + 1 ELSE 0]
           /\ incFor' = IF ~evaluated THEN incFor
                        ELSE [incFor EXCEPT ![o] =
                                 IF deadlocked THEN @ + CountInc(d.log) ELSE 0]
           /\ lastPoll' = [kind |-> "poll", obj |-> o,
                           deadlocked |-> deadlocked /\ evaluated,
                           evaluated |-> evaluated,
                           answer |-> deadlocked,
                           streakBefore |-> streak[o],
                           log |-> d.log,
                           before |-> Tracker, after |-> d]
    /\ polled' = polled \cup {o}
    /\ UNCHANGED <<trackerFilter, cyclePc, cycles>>

\* The end of the pass: namespaces of the previous scan that the current one
\* did not see are zeroed; an object that was not listed ends its streak.
EndCycle ==
    /\ cyclePc = "polling"
    /\ gauge' = zeroOutPriorHitNamespacesThatAreNowEmpty(gauge, lastScan, currentScan)
    /\ cyclePc' = "idle"
    /\ streak' = [o \in Objects |->
                     IF o \in polled \/ NsOf(o) \in trackerFilter THEN streak[o] ELSE 0]
    /\ incFor' = [o \in Objects |->
                     IF o \in polled \/ NsOf(o) \in trackerFilter THEN incFor[o] ELSE 0]
    /\ lastPoll' = NoPoll
    /\ UNCHANGED <<trackerFilter, flaggedNamespaces, lastScan, currentScan, polled, cycles>>

(***************************************************************************)
(* Identifiers of a run and of a step                                      *)
(***************************************************************************)

\* strings.TrimSpace on the parameter names the model uses.
TrimSpace(s) == IF s \in {" name", "name ", " name "} THEN "name" ELSE s

RECURSIVE FirstNameParam(_)
FirstNameParam(params) ==
    IF params = << >> THEN [found |-> FALSE, val |-> ""]
    ELSE IF TrimSpace(Head(params).name) = "name"
         THEN [found |-> TRUE, val |-> Head(params).value]
         ELSE FirstNameParam(Tail(params))

PipelineRunPipelineRef_ParamFirst(pr) ==
    IF ~pr.ref.nil
    THEN LET p == FirstNameParam(pr.ref.params)
         IN  IF p.found THEN p.val ELSE pr.ref.name
    ELSE IF pr.generateName # "" THEN pr.generateName ELSE pr.name

\* pr.ref is pr.Spec.PipelineRef: [nil |-> TRUE], or [nil, name, params] with
\* params a sequence of [name, value].
pipelineRunPipelineRef(pr) ==
    IF ~pr.ref.nil
    THEN IF pr.ref.name = ""
         THEN LET p == FirstNameParam(pr.ref.params)
              IN  IF p.found THEN p.val ELSE pr.ref.name
         ELSE pr.ref.name
    ELSE IF pr.generateName # "" THEN pr.generateName ELSE pr.name

TaskRef_ClusterTaskBeforePipelineTask(labels) ==
    IF labels.task # "" THEN labels.task
    ELSE IF labels.clusterTask # "" THEN labels.clusterTask
    ELSE IF labels.pipelineTask # "" THEN labels.pipelineTask
    ELSE IF labels.taskRun # "" THEN labels.taskRun
    ELSE ""

\* labels is [task, pipelineTask, clusterTask, taskRun]; "" is an absent label.
taskRef(labels) ==
    IF labels.task # "" THEN labels.task
    ELSE IF labels.pipelineTask # "" THEN labels.pipelineTask
    ELSE IF labels.clusterTask # "" THEN labels.clusterTask
    ELSE IF labels.taskRun # "" THEN labels.taskRun
    ELSE ""

(***************************************************************************)
(* The noise filter                                                        *)
(***************************************************************************)

DEFAULT_THRESHOLD == 300000

Digits == {"0", "1", "2", "3", "4", "5", "6", "7", "8", "9"}
DigitVal(c) ==
    CASE c = "0" -> 0 [] c = "1" -> 1 [] c = "2" -> 2 [] c = "3" -> 3 [] c = "4" -> 4
      [] c = "5" -> 5 [] c = "6" -> 6 [] c = "7" -> 7 [] c = "8" -> 8 [] c = "9" -> 9

RECURSIVE DecimalValue(_)
DecimalValue(cs) ==
    IF cs = << >> THEN 0
    ELSE 10 * DecimalValue(SubSeq(cs, 1, Len(cs) - 1)) + DigitVal(cs[Len(cs)])

\* strconv.ParseFloat on a sequence of characters, for the decimal integers
\* (with an optional sign) the model feeds it; anything else is a syntax error.
ParseFloat(cs) ==
    LET neg == Len(cs) > 0 /\ cs[1] = "-"
        body == IF neg THEN Tail(cs) ELSE cs
    IN  IF body = << >> \/ \E i \in DOMAIN body : body[i] \notin Digits
        THEN [err |-> TRUE, val |-> 0]
        ELSE [err |-> FALSE,
              val |-> IF neg THEN 0 - DecimalValue(body) ELSE DecimalValue(body)]

\* The threshold filter works with, env being os.Getenv(FILTER_THRESHOLD).
FilterThreshold(env) ==
    IF Len(env) > 0
    THEN LET parsed == ParseFloat(env)
         IN  IF parsed.err THEN DEFAULT_THRESHOLD ELSE parsed.val
    ELSE DEFAULT_THRESHOLD

Filter_IgnoresNumerator(env, numerator, denominator) ==
    denominator < FilterThreshold(env)

filter(env, numerator, denominator) ==
    numerator > 0 /\ denominator < FilterThreshold(env)

FilterEnvs ==
    { << >>, <<"1", "0", "0", "0">>, <<"6", "0", "0", "0", "0", "0">>,
      <<"0">>, <<"a", "b", "c">>, <<"-", "5">> }
FilterNumerators == {-1, 0, 1, 5000, 400000}
FilterDenominators ==
    {-10, 0, 999, 1000, 1001, 299999, 300000, 300001, 599999, 600000, 600001}

Unset == [set |-> FALSE]

FilterIdle == filterIn = Unset /\ filterOut = Unset

FilterStart ==
    /\ filterIn \in [set : {TRUE}, env : FilterEnvs, numerator : FilterNumerators,
                     denominator : FilterDenominators]
    /\ filterOut = Unset

ApplyFilter ==
    /\ ~filterOut.set
    /\ filterOut' = [set |-> TRUE,
                     val |-> filter(filterIn.env, filterIn.numerator, filterIn.denominator)]
    /\ UNCHANGED filterIn

(***************************************************************************)
(* Timeline reconstruction                                                 *)
(***************************************************************************)

\* A nil *metav1.Time.
NoTime == -1
\* Timestamps range over 0 .. MaxTime.
MaxTime == 3

SUCCEEDED == "succeded"
FAILED == "failed"

\* The child references of the runs explored: a prefix of these.
StepNames == <<"t1", "t2", "t3">>

TaskLabels(task) == [task |-> task, pipelineTask |-> "", clusterTask |-> "", taskRun |-> ""]

\* Insert tr into a creation-sorted sequence behind every element it is not Before.
RECURSIVE InsertByCreate(_, _)
InsertByCreate(sorted, tr) ==
    IF sorted = << >> THEN <<tr>>
    ELSE IF tr.created < Head(sorted).created
         THEN <<tr>> \o sorted
         ELSE <<Head(sorted)>> \o InsertByCreate(Tail(sorted), tr)

RECURSIVE InsertByCompletionDesc(_, _)
InsertByCompletionDesc(sorted, tr) ==
    IF sorted = << >> THEN <<tr>>
    ELSE IF tr.completion > Head(sorted).completion
         THEN <<tr>> \o sorted
         ELSE <<Head(sorted)>> \o InsertByCompletionDesc(Tail(sorted), tr)

\* sort.SliceStable by CreationTimestamp Before / by CompletionTime After.
RECURSIVE SortByCreate(_)
SortByCreate(s) ==
    IF s = << >> THEN << >>
    ELSE InsertByCreate(SortByCreate(SubSeq(s, 1, Len(s) - 1)), s[Len(s)])

RECURSIVE SortByCompletionDesc(_)
SortByCompletionDesc(s) ==
    IF s = << >> THEN << >>
    ELSE InsertByCompletionDesc(SortByCompletionDesc(SubSeq(s, 1, Len(s) - 1)), s[Len(s)])

\* oc.Get of a TaskRun: trs is the store, errs the names whose Get fails with
\* an error other than not-found.
GetTaskRun(trs, errs, name) ==
    IF name \in errs THEN [err |-> "error"]
    ELSE IF name \notin DOMAIN trs \/ ~trs[name].exists THEN [err |-> "notfound"]
    ELSE [err |-> "nil", kid |-> trs[name]]

RECURSIVE FetchKids_SkipsMissing(_, _, _)
FetchKids_SkipsMissing(refs, trs, errs) ==
    IF refs = << >> THEN [abort |-> FALSE, byCreate |-> << >>, completed |-> << >>]
    ELSE IF Head(refs).kind # "TaskRun" THEN FetchKids_SkipsMissing(Tail(refs), trs, errs)
    ELSE LET got == GetTaskRun(trs, errs, Head(refs).name)
         IN  IF got.err = "error"
             THEN [abort |-> TRUE, byCreate |-> << >>, completed |-> << >>]
             ELSE IF got.err = "notfound"
             THEN FetchKids_SkipsMissing(Tail(refs), trs, errs)
             ELSE LET rest == FetchKids_SkipsMissing(Tail(refs), trs, errs)
                  IN  IF rest.abort THEN rest
                      ELSE [abort |-> FALSE,
                            byCreate |-> <<got.kid>> \o rest.byCreate,
                            completed |-> IF got.kid.completion # NoTime
                                          THEN <<got.kid>> \o rest.completed
                                          ELSE rest.completed]

\* The loop over pr.Status.ChildReferences: [abort, byCreate, completed].
RECURSIVE FetchKids(_, _, _)
FetchKids(refs, trs, errs) ==
    IF refs = << >> THEN [abort |-> FALSE, byCreate |-> << >>, completed |-> << >>]
    ELSE IF Head(refs).kind # "TaskRun" THEN FetchKids(Tail(refs), trs, errs)
    ELSE LET got == GetTaskRun(trs, errs, Head(refs).name)
         IN  IF got.err # "nil"
             THEN [abort |-> TRUE, byCreate |-> << >>, completed |-> << >>]
             ELSE LET rest == FetchKids(Tail(refs), trs, errs)
                  IN  IF rest.abort THEN rest
                      ELSE [abort |-> FALSE,
                            byCreate |-> <<got.kid>> \o rest.byCreate,
                            completed |-> IF got.kid.completion # NoTime
                                          THEN <<got.kid>> \o rest.completed
                                          ELSE rest.completed]

SortTaskRuns_DropUncompleted(pr, trs, errs) ==
    LET f == FetchKids(pr.refs, trs, errs)
    IN  IF f.abort THEN [abort |-> TRUE, sorted |-> << >>, reverse |-> << >>]
        ELSE [abort |-> FALSE,
              sorted |-> SortByCreate(f.completed),
              reverse |-> SortByCompletionDesc(f.completed)]

sortTaskRunsForGapCalculations(pr, trs, errs) ==
    LET f == FetchKids(pr.refs, trs, errs)
    IN  IF f.abort THEN [abort |-> TRUE, sorted |-> << >>, reverse |-> << >>]
        ELSE [abort |-> FALSE,
              sorted |-> SortByCreate(f.byCreate),
              reverse |-> SortByCompletionDesc(f.completed)]

\* The first element of reverse, other than tr itself, that did not complete
\* after tr was created; not found when the loop runs out.
RECURSIVE FirstNotAfter(_, _)
FirstNotAfter(reverse, tr) ==
    IF reverse = << >> THEN [found |-> FALSE]
    ELSE IF Head(reverse).name = tr.name THEN FirstNotAfter(Tail(reverse), tr)
    ELSE IF ~(Head(reverse).completion > tr.created)
         THEN [found |-> TRUE, tr |-> Head(reverse)]
    ELSE FirstNotAfter(Tail(reverse), tr)

GapEntry(status, prRef, completed, upcoming, gap) ==
    [status |-> status, pipeline |-> prRef, completed |-> completed,
     upcoming |-> upcoming, gap |-> gap]

\* One iteration of calculateGaps' loop, for sorted[index] (counted from 1).
GapFor_ChainsOnFirst(pr, sorted, reverse, index) ==
    LET tr == sorted[index]
        prRef == pipelineRunPipelineRef(pr)
        status == IF pr.cond = "False" THEN FAILED ELSE SUCCEEDED
        firstKid == sorted[1]
    IN  IF index = 1
        THEN GapEntry(status, prRef, prRef, taskRef(tr.labels), tr.created - pr.created)
        ELSE GapEntry(status, prRef, taskRef(firstKid.labels), taskRef(tr.labels),
                      tr.created - firstKid.created)

GapFor_NoParallelCheck(pr, sorted, reverse, index) ==
    LET tr == sorted[index]
        prRef == pipelineRunPipelineRef(pr)
        status == IF pr.cond = "False" THEN FAILED ELSE SUCCEEDED
    IN  IF index = 1
        THEN GapEntry(status, prRef, prRef, taskRef(tr.labels), tr.created - pr.created)
        ELSE LET last == IF Len(reverse) > 0
                         THEN [id |-> taskRef(reverse[Len(reverse)].labels),
                               time |-> reverse[Len(reverse)].completion]
                         ELSE [id |-> prRef, time |-> pr.created]
                 tr2 == FirstNotAfter(reverse, tr)
                 with == IF ~tr2.found THEN last
                         ELSE [id |-> taskRef(tr2.tr.labels), time |-> tr2.tr.completion]
             IN  GapEntry(status, prRef, with.id, taskRef(tr.labels),
                          tr.created - with.time)

GapFor_StatusOfStep(pr, sorted, reverse, index) ==
    LET tr == sorted[index]
        prRef == pipelineRunPipelineRef(pr)
        status == IF tr.cond = "False" THEN FAILED ELSE SUCCEEDED
    IN  GapEntry(status, prRef, prRef, taskRef(tr.labels), tr.created - pr.created)

GapFor(pr, sorted, reverse, index) ==
    LET tr == sorted[index]
        prRef == pipelineRunPipelineRef(pr)
        status == IF pr.cond = "False" THEN FAILED ELSE SUCCEEDED
        firstKid == sorted[1]
    IN  IF index = 1
        THEN GapEntry(status, prRef, prRef, taskRef(tr.labels), tr.created - pr.created)
        ELSE IF firstKid.completion # NoTime /\ firstKid.completion > tr.created
        THEN GapEntry(status, prRef, prRef, taskRef(tr.labels), tr.created - pr.created)
        ELSE LET last == IF Len(reverse) > 0
                         THEN [id |-> taskRef(reverse[Len(reverse)].labels),
                               time |-> reverse[Len(reverse)].completion]
                         ELSE [id |-> prRef, time |-> pr.created]
                 tr2 == FirstNotAfter(reverse, tr)
                 with == IF ~tr2.found THEN last
                         ELSE [id |-> taskRef(tr2.tr.labels), time |-> tr2.tr.completion]
             IN  GapEntry(status, prRef, with.id, taskRef(tr.labels),
                          tr.created - with.time)

CalculateGaps_SkipsFailed(pr, sorted, reverse) ==
    IF pr.cond \in {"nil", "Unknown", "False"} THEN << >>
    ELSE [i \in 1..Len(sorted) |-> GapFor(pr, sorted, reverse, i)]

\* pr.cond is the status of the run's Succeeded condition: "nil" when there is
\* none, else "Unknown", "True" or "False".
calculateGaps(pr, sorted, reverse) ==
    IF pr.cond \in {"nil", "Unknown"} THEN << >>
    ELSE [i \in 1..Len(sorted) |-> GapFor(pr, sorted, reverse, i)]

GapPipelineRun(created, cond, n) ==
    [name |-> "run-1", generateName |-> "", ref |-> [nil |-> FALSE, name |-> "pipeline-a", params |-> << >>],
     created |-> created, cond |-> cond,
     refs |-> [i \in 1..n |-> [kind |-> "TaskRun", name |-> StepNames[i]]]]

\* cond is the status of the step's own Succeeded condition.
GapTaskRun(name, created, completion, cond) ==
    [name |-> name, exists |-> TRUE, created |-> created, completion |-> completion,
     cond |-> cond, labels |-> TaskLabels(name)]

GapIdle == gapIn = Unset /\ gapOut = Unset

GapStart ==
    /\ \E n \in 0..Len(StepNames), prCreated \in 0..1, cond \in {"True", "False"},
          stepCond \in {"True", "False"} :
       \E created \in [1..n -> 0..MaxTime],
          completion \in [1..n -> (0..MaxTime) \cup {NoTime}] :
          gapIn = [set |-> TRUE, pr |-> GapPipelineRun(prCreated, cond, n),
                   trs  |-> [nm \in {StepNames[i] : i \in 1..n} |->
                              LET i == CHOOSE j \in 1..n : StepNames[j] = nm
                              IN  GapTaskRun(nm, created[i], completion[i], stepCond)]]
    /\ gapOut = Unset

ReconstructGaps ==
    /\ ~gapOut.set
    /\ LET s == sortTaskRunsForGapCalculations(gapIn.pr, gapIn.trs, {})
       IN  gapOut' = [set |-> TRUE, abort |-> s.abort, sorted |-> s.sorted, reverse |-> s.reverse,
                      entries |-> IF s.abort THEN << >>
                                  ELSE calculateGaps(gapIn.pr, s.sorted, s.reverse)]
    /\ UNCHANGED gapIn

(***************************************************************************)
(* Throttle tagging and ReconcileOverhead                                  *)
(***************************************************************************)

\* Observations each histogram may take, and label Patches applied, before
\* the exploration stops reconciling.
MaxObservations == 2
MaxPatches == 2

\* pr.Labels has no THROTTLED_LABEL.
NoLabel == "<none>"

ReasonExceededResourceQuota == "ExceededResourceQuota"
ReasonExceededNodeResources == "ExceededNodeResources"

\* The zero time.Time, apart from every instant of the explored runs and from a
\* nil *metav1.Time (NoTime).
ZeroTime == -2

\* time.Time.IsZero
IsZero(t) == t = ZeroTime

calculateScheduledDuration(created, started) ==
    IF IsZero(created) \/ IsZero(started) THEN 0 ELSE started - created

SkipPipelineRun_IgnoresLabel(p) ==
    \/ Len(p.refs) < 1
    \/ p.completion = NoTime

SkipPipelineRun_IgnoresCompletion(p) ==
    \/ Len(p.refs) < 1
    \/ p.label # NoLabel

skipPipelineRun(p) ==
    \/ Len(p.refs) < 1
    \/ p.completion = NoTime
    \/ p.label # NoLabel

IsTaskRunThrottled_AnyUnknown(tr) ==
    tr.cond = "Unknown"

\* tr.cond is "nil" for a TaskRun without a Succeeded condition (the empty
\* TaskRun a not-found Get leaves behind included).
isTaskRunThrottled(tr) ==
    /\ tr.cond = "Unknown"
    /\ tr.reason \in {ReasonExceededResourceQuota, ReasonExceededNodeResources}

isPipelineRunGoing(p) ==
    \E i \in DOMAIN p.refs : p.refs[i].kind = "TaskRun"

EmptyTaskRun == [name |-> "", cond |-> "nil", reason |-> ""]

RECURSIVE ThrottleScan_StopsAtMissing(_, _, _)
ThrottleScan_StopsAtMissing(refs, store, errs) ==
    IF refs = << >>
    THEN [throttled |-> FALSE, throttledTaskRun |-> "", err |-> "nil", fetched |-> << >>]
    ELSE IF Head(refs).kind # "TaskRun" THEN ThrottleScan_StopsAtMissing(Tail(refs), store, errs)
    ELSE LET got == GetTaskRun(store, errs, Head(refs).name)
         IN  IF got.err # "nil"
             THEN [throttled |-> FALSE, throttledTaskRun |-> "", err |-> got.err,
                   fetched |-> <<Head(refs).name>>]
             ELSE IF isTaskRunThrottled(got.kid)
             THEN [throttled |-> TRUE, throttledTaskRun |-> got.kid.name, err |-> "nil",
                   fetched |-> <<Head(refs).name>>]
             ELSE LET rest == ThrottleScan_StopsAtMissing(Tail(refs), store, errs)
                  IN  [rest EXCEPT !.fetched = <<Head(refs).name>> \o @]

\* [throttled, throttledTaskRun, err, fetched]: fetched lists the Gets made.
RECURSIVE ThrottleScan(_, _, _)
ThrottleScan(refs, store, errs) ==
    IF refs = << >>
    THEN [throttled |-> FALSE, throttledTaskRun |-> "", err |-> "nil", fetched |-> << >>]
    ELSE IF Head(refs).kind # "TaskRun" THEN ThrottleScan(Tail(refs), store, errs)
    ELSE LET got == GetTaskRun(store, errs, Head(refs).name)
             kid == IF got.err = "nil" THEN got.kid ELSE EmptyTaskRun
         IN  IF got.err = "error"
             THEN [throttled |-> FALSE, throttledTaskRun |-> "", err |-> "error",
                   fetched |-> <<Head(refs).name>>]
             ELSE IF isTaskRunThrottled(kid)
             THEN [throttled |-> TRUE, throttledTaskRun |-> kid.name, err |-> "nil",
                   fetched |-> <<Head(refs).name>>]
             ELSE LET rest == ThrottleScan(Tail(refs), store, errs)
                  IN  [rest EXCEPT !.fetched = <<Head(refs).name>> \o @]

isPipelineRunThrottled(p, store, errs) == ThrottleScan(p.refs, store, errs)

NoPatch == [called |-> FALSE]

\* tagPipelineRunsWithTaskRunsGettingThrottled on the copy p of the run:
\* [err, patch, fetched]. patchOutcome is what oc.Patch returns if it is called:
\* "ok", "notfound" or "error" (any other failure). client.MergeFrom(pr) sends
\* the difference between pr and changedPR, the throttle label, with no
\* resource-version precondition.
Tag_Relabels(p, store, errs, patchOutcome) ==
    LET t == isPipelineRunThrottled(p, store, errs)
    IN  IF t.err # "nil" THEN [err |-> t.err, patch |-> NoPatch, fetched |-> t.fetched]
        ELSE IF t.throttled
        THEN [err |-> IF patchOutcome = "notfound" THEN "notfound" ELSE "nil",
              patch |-> [called |-> TRUE, value |-> t.throttledTaskRun,
                         outcome |-> patchOutcome],
              fetched |-> t.fetched]
        ELSE [err |-> "nil", patch |-> NoPatch, fetched |-> t.fetched]

Tag_ReturnsPatchError(p, store, errs, patchOutcome) ==
    LET t == isPipelineRunThrottled(p, store, errs)
        previouslyLabelled == p.label # NoLabel
    IN  IF t.err # "nil" THEN [err |-> t.err, patch |-> NoPatch, fetched |-> t.fetched]
        ELSE IF t.throttled /\ ~previouslyLabelled
        THEN [err |-> IF patchOutcome = "ok" THEN "nil" ELSE patchOutcome,
              patch |-> [called |-> TRUE, value |-> t.throttledTaskRun,
                         outcome |-> patchOutcome],
              fetched |-> t.fetched]
        ELSE [err |-> "nil", patch |-> NoPatch, fetched |-> t.fetched]

tagPipelineRunsWithTaskRunsGettingThrottled(p, store, errs, patchOutcome) ==
    LET t == isPipelineRunThrottled(p, store, errs)
        previouslyLabelled == p.label # NoLabel
    IN  IF t.err # "nil" THEN [err |-> t.err, patch |-> NoPatch, fetched |-> t.fetched]
        ELSE IF t.throttled /\ ~previouslyLabelled
        THEN [err |-> IF patchOutcome = "notfound" THEN "notfound" ELSE "nil",
              patch |-> [called |-> TRUE, value |-> t.throttledTaskRun,
                         outcome |-> patchOutcome],
              fetched |-> t.fetched]
        ELSE [err |-> "nil", patch |-> NoPatch, fetched |-> t.fetched]

\* The names sortTaskRunsForGapCalculations asks oc.Get for, in order.
RECURSIVE KidsFetched(_, _, _)
KidsFetched(refs, store, errs) ==
    IF refs = << >> THEN << >>
    ELSE IF Head(refs).kind # "TaskRun" THEN KidsFetched(Tail(refs), store, errs)
    ELSE IF GetTaskRun(store, errs, Head(refs).name).err # "nil"
         THEN <<Head(refs).name>>
         ELSE <<Head(refs).name>> \o KidsFetched(Tail(refs), store, errs)

RECURSIVE SumGaps(_)
SumGaps(entries) ==
    IF entries = << >> THEN 0 ELSE Head(entries).gap + SumGaps(Tail(entries))

\* [gapTotal, gapEntries, foundGaps, fetched]
AccumulateGaps_IgnoresAbort(p, store, errs) ==
    IF skipPipelineRun(p)
    THEN [gapTotal |-> 0, gapEntries |-> << >>, foundGaps |-> FALSE, fetched |-> << >>]
    ELSE LET s == sortTaskRunsForGapCalculations(p, store, errs)
             gapEntries == calculateGaps(p, s.sorted, s.reverse)
         IN  [gapTotal |-> SumGaps(gapEntries), gapEntries |-> gapEntries,
              foundGaps |-> TRUE, fetched |-> KidsFetched(p.refs, store, errs)]

accumulateGaps(p, store, errs) ==
    IF skipPipelineRun(p)
    THEN [gapTotal |-> 0, gapEntries |-> << >>, foundGaps |-> FALSE, fetched |-> << >>]
    ELSE LET s == sortTaskRunsForGapCalculations(p, store, errs)
             fetched == KidsFetched(p.refs, store, errs)
         IN  IF s.abort
             THEN [gapTotal |-> 0, gapEntries |-> << >>, foundGaps |-> FALSE,
                   fetched |-> fetched]
             ELSE LET gapEntries == calculateGaps(p, s.sorted, s.reverse)
                  IN  [gapTotal |-> SumGaps(gapEntries), gapEntries |-> gapEntries,
                       foundGaps |-> TRUE, fetched |-> fetched]

Result(requeue, err) == [requeue |-> requeue, err |-> err]

TotalDuration_FromCreation(p) == p.completion - p.created

\* pr.Status.CompletionTime.Time.Sub(pr.Status.StartTime.Time).Milliseconds()
totalDuration(p) == p.completion - p.start

\* What one ReconcileOverhead does: [result, panicked, patch, fetched,
\* execution, scheduling], the last two being the observations it makes.
Outcome(result, patch, fetched, exec, sched) ==
    [result |-> result, panicked |-> FALSE, patch |-> patch, fetched |-> fetched,
     execution |-> exec, scheduling |-> sched]

\* A ratio a histogram observes, overhead / totalDuration, kept as a fraction.
Observation(status, num, den) == [status |-> status, num |-> num, den |-> den]

ReconcileOverhead_OneFilter(get, p, store, errs, patchOutcome, env) ==
    IF get = "error" THEN Outcome(Result(FALSE, "error"), NoPatch, << >>, << >>, << >>)
    ELSE IF get = "notfound"
    THEN Outcome(Result(FALSE, "nil"), NoPatch, << >>, << >>, << >>)
    ELSE IF p.cond # "nil" /\ p.cond # "Unknown"
    THEN LET g == accumulateGaps(p, store, errs)
         IN  IF ~g.foundGaps
             THEN Outcome(Result(FALSE, "nil"), NoPatch, g.fetched, << >>, << >>)
             ELSE IF p.start = NoTime
             THEN [Outcome(Result(FALSE, "nil"), NoPatch, g.fetched, << >>, << >>)
                      EXCEPT !.panicked = TRUE]
             ELSE LET status == IF p.cond = "False" THEN FAILED ELSE SUCCEEDED
                      total == totalDuration(p)
                      scheduleDuration == calculateScheduledDuration(p.created, p.start)
                  IN  IF filter(env, g.gapTotal, total)
                      THEN Outcome(Result(FALSE, "nil"), NoPatch, g.fetched, << >>, << >>)
                      ELSE Outcome(Result(FALSE, "nil"), NoPatch, g.fetched,
                               <<Observation(status, g.gapTotal, total)>>,
                               <<Observation(status, scheduleDuration, total)>>)
    ELSE IF ~isPipelineRunGoing(p)
    THEN Outcome(Result(TRUE, "nil"), NoPatch, << >>, << >>, << >>)
    ELSE LET t == tagPipelineRunsWithTaskRunsGettingThrottled(p, store, errs, patchOutcome)
         IN  Outcome(Result(FALSE, t.err), t.patch, t.fetched, << >>, << >>)

ReconcileOverhead_NoRequeue(get, p, store, errs, patchOutcome, env) ==
    IF get = "nil" /\ p.cond \in {"nil", "Unknown"} /\ ~isPipelineRunGoing(p)
    THEN Outcome(Result(FALSE, "nil"), NoPatch, << >>, << >>, << >>)
    ELSE ReconcileOverhead_OneFilter(get, p, store, errs, patchOutcome, env)

ReconcileOverhead_TagsDoneRuns(get, p, store, errs, patchOutcome, env) ==
    IF get = "nil" /\ isPipelineRunGoing(p)
    THEN LET t == tagPipelineRunsWithTaskRunsGettingThrottled(p, store, errs, patchOutcome)
         IN  IF p.cond \in {"nil", "Unknown"} \/ t.err # "nil" \/ t.patch.called
             THEN Outcome(Result(FALSE, t.err), t.patch, t.fetched, << >>, << >>)
             ELSE ReconcileOverhead_OneFilter(get, p, store, errs, patchOutcome, env)
    ELSE ReconcileOverhead_OneFilter(get, p, store, errs, patchOutcome, env)

\* get is what r.client.Get of the run returns ("nil", "notfound" or "error"),
\* p the run it read, env the value of FILTER_THRESHOLD.
ReconcileOverhead(get, p, store, errs, patchOutcome, env) ==
    IF get = "error" THEN Outcome(Result(FALSE, "error"), NoPatch, << >>, << >>, << >>)
    ELSE IF get = "notfound"
    THEN Outcome(Result(FALSE, "nil"), NoPatch, << >>, << >>, << >>)
    ELSE IF p.cond # "nil" /\ p.cond # "Unknown"
    THEN LET g == accumulateGaps(p, store, errs)
         IN  IF ~g.foundGaps
             THEN Outcome(Result(FALSE, "nil"), NoPatch, g.fetched, << >>, << >>)
             ELSE IF p.start = NoTime
             THEN \* pr.Status.StartTime.Time on a nil StartTime
                  [Outcome(Result(FALSE, "nil"), NoPatch, g.fetched, << >>, << >>)
                      EXCEPT !.panicked = TRUE]
             ELSE LET status == IF p.cond = "False" THEN FAILED ELSE SUCCEEDED
                      total == totalDuration(p)
                      scheduleDuration == calculateScheduledDuration(p.created, p.start)
                  IN  Outcome(Result(FALSE, "nil"), NoPatch, g.fetched,
                          IF ~filter(env, g.gapTotal, total)
                          THEN <<Observation(status, g.gapTotal, total)>>
                          ELSE << >>,
                          IF ~filter(env, scheduleDuration, total)
                          THEN <<Observation(status, scheduleDuration, total)>>
                          ELSE << >>)
    ELSE IF ~isPipelineRunGoing(p)
    THEN Outcome(Result(TRUE, "nil"), NoPatch, << >>, << >>, << >>)
    ELSE LET t == tagPipelineRunsWithTaskRunsGettingThrottled(p, store, errs, patchOutcome)
         IN  Outcome(Result(FALSE, t.err), t.patch, t.fetched, << >>, << >>)

\* ---- the run and its steps, as the pipeline controller drives them

RunSteps == <<"t1", "t2">>
RunStepNames == {RunSteps[i] : i \in DOMAIN RunSteps}

\* A long run, whose overhead is recorded, and a short one, which is filtered.
Plans ==
    { [prCreated |-> 0, prStart |-> 5000, prCompletion |-> 360000,
       created    |-> [t1 |-> 10000, t2 |-> 110000],
       completion |-> [t1 |-> 100000, t2 |-> 350000]],
      [prCreated |-> 0, prStart |-> 1000, prCompletion |-> 60000,
       created    |-> [t1 |-> 2000, t2 |-> 31000],
       completion |-> [t1 |-> 30000, t2 |-> 59000]] }

NoTaskRun(name) ==
    [name |-> name, exists |-> FALSE, created |-> 0, completion |-> NoTime,
     cond |-> "nil", reason |-> "", labels |-> TaskLabels(name)]

NoRec == [kind |-> "none"]

RecStart ==
    /\ plan \in Plans
    /\ pipelineRun = [exists |-> TRUE, name |-> "run-1", generateName |-> "",
             ref |-> [nil |-> FALSE, name |-> "pipeline-a", params |-> << >>],
             created |-> plan.prCreated, start |-> NoTime, completion |-> NoTime,
             cond |-> "nil", refs |-> << >>, label |-> NoLabel]
    /\ cachedRun = pipelineRun
    /\ taskRuns = [nm \in RunStepNames |-> NoTaskRun(nm)]
    /\ execution = << >>
    /\ scheduling = << >>
    /\ labelPatches = 0
    /\ lastRec = NoRec

RecIdle ==
    /\ plan = Unset
    /\ pipelineRun = Unset
    /\ cachedRun = Unset
    /\ taskRuns = Unset
    /\ execution = << >>
    /\ scheduling = << >>
    /\ labelPatches = 0
    /\ lastRec = NoRec

Running == pipelineRun.exists /\ pipelineRun.cond = "Unknown"

\* The positions of p's child references of kind TaskRun.
StepRefs(p) == {i \in DOMAIN p.refs : p.refs[i].kind = "TaskRun"}

\* The pipeline controller initialises the run's conditions and start time.
TektonStart ==
    /\ pipelineRun.exists /\ pipelineRun.cond = "nil"
    /\ pipelineRun' = [pipelineRun EXCEPT !.cond = "Unknown", !.start = plan.prStart]
    /\ lastRec' = NoRec
    /\ UNCHANGED <<plan, cachedRun, taskRuns, execution, scheduling, labelPatches>>

\* The pipeline controller creates the next step and references it.
TektonCreateStep ==
    /\ Running
    /\ Cardinality(StepRefs(pipelineRun)) < Len(RunSteps)
    /\ LET nm == RunSteps[Cardinality(StepRefs(pipelineRun)) + 1]
       IN  /\ taskRuns' = [taskRuns EXCEPT ![nm] =
                        [@ EXCEPT !.exists = TRUE, !.created = plan.created[nm],
                                  !.cond = "Unknown", !.reason = "Running"]]
           /\ pipelineRun' = [pipelineRun EXCEPT !.refs = Append(@, [kind |-> "TaskRun", name |-> nm])]
    /\ lastRec' = NoRec
    /\ UNCHANGED <<plan, cachedRun, execution, scheduling, labelPatches>>

\* A step's pod hits a quota or node limit, or gets going again.
StepThrottle(nm, reason) ==
    /\ taskRuns[nm].exists /\ taskRuns[nm].cond = "Unknown"
    /\ taskRuns[nm].reason # reason
    /\ taskRuns' = [taskRuns EXCEPT ![nm].reason = reason]
    /\ lastRec' = NoRec
    /\ UNCHANGED <<plan, pipelineRun, cachedRun, execution, scheduling, labelPatches>>

StepFinish(nm, cond) ==
    /\ taskRuns[nm].exists /\ taskRuns[nm].cond = "Unknown"
    /\ taskRuns' = [taskRuns EXCEPT ![nm] =
                 [@ EXCEPT !.cond = cond, !.completion = plan.completion[nm],
                           !.reason = IF cond = "True" THEN "Succeeded" ELSE "Failed"]]
    /\ lastRec' = NoRec
    /\ UNCHANGED <<plan, pipelineRun, cachedRun, execution, scheduling, labelPatches>>

\* A step is pruned.
StepDelete(nm) ==
    /\ taskRuns[nm].exists
    /\ taskRuns' = [taskRuns EXCEPT ![nm] = NoTaskRun(nm)]
    /\ lastRec' = NoRec
    /\ UNCHANGED <<plan, pipelineRun, cachedRun, execution, scheduling, labelPatches>>

\* The run is marked done, its completion time set with it or left for later.
TektonDone(cond, stamped) ==
    /\ Running
    /\ pipelineRun' = [pipelineRun EXCEPT !.cond = cond,
                        !.completion = IF stamped THEN plan.prCompletion ELSE NoTime]
    /\ lastRec' = NoRec
    /\ UNCHANGED <<plan, cachedRun, taskRuns, execution, scheduling, labelPatches>>

TektonStamp ==
    /\ pipelineRun.exists /\ pipelineRun.cond \in {"True", "False"} /\ pipelineRun.completion = NoTime
    /\ pipelineRun' = [pipelineRun EXCEPT !.completion = plan.prCompletion]
    /\ lastRec' = NoRec
    /\ UNCHANGED <<plan, cachedRun, taskRuns, execution, scheduling, labelPatches>>

RunDelete ==
    /\ pipelineRun.exists
    /\ pipelineRun' = [pipelineRun EXCEPT !.exists = FALSE]
    /\ lastRec' = NoRec
    /\ UNCHANGED <<plan, cachedRun, taskRuns, execution, scheduling, labelPatches>>

\* The informer's cache catches up with the store.
InformerSync ==
    /\ cachedRun # pipelineRun
    /\ cachedRun' = pipelineRun
    /\ lastRec' = NoRec
    /\ UNCHANGED <<plan, pipelineRun, taskRuns, execution, scheduling, labelPatches>>

\* One ReconcileOverhead of the run, reading the run from the cache.
Reconcile(getErr, errs, patchFails) ==
    /\ Len(execution) < MaxObservations
    /\ Len(scheduling) < MaxObservations
    /\ labelPatches < MaxPatches
    /\ LET get == IF getErr THEN "error"
                  ELSE IF cachedRun.exists THEN "nil" ELSE "notfound"
           patchOutcome == IF ~pipelineRun.exists THEN "notfound"
                           ELSE IF patchFails THEN "error" ELSE "ok"
           o == ReconcileOverhead(get, cachedRun, taskRuns, errs, patchOutcome, << >>)
           applied == o.patch.called /\ o.patch.outcome = "ok"
           \* the reconcile before this one read the same run and steps
           again == /\ lastRec.kind = "reconcile"
                    /\ lastRec.seen = cachedRun
                    /\ lastRec.steps = taskRuns
       IN  /\ (patchFails => o.patch.called /\ pipelineRun.exists)
           /\ (errs # {} => \E i \in DOMAIN o.fetched : o.fetched[i] \in errs)
           /\ pipelineRun' = IF applied THEN [pipelineRun EXCEPT !.label = o.patch.value] ELSE pipelineRun
           /\ labelPatches' = IF applied THEN labelPatches + 1 ELSE labelPatches
           /\ execution' = execution \o o.execution
           /\ scheduling' = scheduling \o o.scheduling
           /\ lastRec' = [kind |-> "reconcile", get |-> get, seen |-> cachedRun,
                          stored |-> pipelineRun, steps |-> taskRuns, errs |-> errs,
                          out |-> o,
                          priorExecution |->
                              IF again THEN lastRec.priorExecution + Len(lastRec.out.execution)
                              ELSE 0,
                          priorScheduling |->
                              IF again THEN lastRec.priorScheduling + Len(lastRec.out.scheduling)
                              ELSE 0,
                          \* the reconcile before this one called Patch and it failed
                          priorPatchFailed |->
                              /\ again
                              /\ lastRec.out.patch.called
                              /\ lastRec.out.patch.outcome = "error"]
    /\ UNCHANGED <<plan, cachedRun, taskRuns>>

(***************************************************************************)
(* overheadGapEventFilter                                                  *)
(***************************************************************************)

\* PipelineRun.IsDone: the Succeeded condition is set and not Unknown.
IsDone(p) == ~(p.cond = "nil" \/ p.cond = "Unknown")

OverheadGapEventFilter_Update_IgnoresLabel(oldPR, newPR, store, errs) ==
    IF ~IsDone(oldPR) /\ IsDone(newPR) THEN TRUE
    ELSE IF IsDone(oldPR) /\ IsDone(newPR) THEN FALSE
    ELSE IF isPipelineRunThrottled(newPR, store, errs).throttled THEN TRUE
    ELSE ~isPipelineRunGoing(newPR)

OverheadGapEventFilter_Update_NoDoneBypass(oldPR, newPR, store, errs) ==
    IF newPR.label # NoLabel THEN FALSE
    ELSE IF ~IsDone(oldPR) /\ IsDone(newPR) THEN TRUE
    ELSE IF isPipelineRunThrottled(newPR, store, errs).throttled THEN TRUE
    ELSE ~isPipelineRunGoing(newPR)

OverheadGapEventFilter_Update_GoingOnly(oldPR, newPR, store, errs) ==
    IF newPR.label # NoLabel THEN FALSE
    ELSE IF ~IsDone(oldPR) /\ IsDone(newPR) THEN TRUE
    ELSE IF IsDone(oldPR) /\ IsDone(newPR) THEN FALSE
    ELSE ~isPipelineRunGoing(newPR)

\* overheadGapEventFilter.Update on an update of a PipelineRun (both type
\* assertions hold): whether the run is handed to ReconcileOverhead. store and
\* errs are what f.client returns for the TaskRuns; the error of
\* isPipelineRunThrottled is discarded.
OverheadGapEventFilter_Update(oldPR, newPR, store, errs) ==
    IF newPR.label # NoLabel THEN FALSE
    ELSE IF ~IsDone(oldPR) /\ IsDone(newPR) THEN TRUE
    ELSE IF IsDone(oldPR) /\ IsDone(newPR) THEN FALSE
    ELSE IF isPipelineRunThrottled(newPR, store, errs).throttled THEN TRUE
    ELSE IF ~isPipelineRunGoing(newPR) THEN TRUE
    ELSE FALSE

NoUpdate == [kind |-> "none"]

EventIdle == lastUpdate = NoUpdate /\ doneTriggers = 0

\* The watch delivers the update of the run made in this step to the filter.
DeliverUpdate(errs) ==
    LET trigger == OverheadGapEventFilter_Update(pipelineRun, pipelineRun', taskRuns', errs)
        scan == isPipelineRunThrottled(pipelineRun', taskRuns', errs)
    IN  /\ (errs # {} => \E i \in DOMAIN scan.fetched : scan.fetched[i] \in errs)
        /\ lastUpdate' = [kind |-> "update", old |-> pipelineRun, new |-> pipelineRun',
                          steps |-> taskRuns', errs |-> errs, trigger |-> trigger]
        /\ doneTriggers' = IF trigger /\ IsDone(pipelineRun')
                           THEN doneTriggers + 1 ELSE doneTriggers

\* A change of the TaskRuns, or the deletion of the run: no update of the run.
NoDelivery == lastUpdate' = NoUpdate /\ UNCHANGED doneTriggers

\* The pipeline controller references a custom run.
TektonCreateCustomRun ==
    /\ Running
    /\ \A i \in DOMAIN pipelineRun.refs : pipelineRun.refs[i].kind # "CustomRun"
    /\ pipelineRun' = [pipelineRun EXCEPT !.refs = Append(@, [kind |-> "CustomRun", name |-> "c1"])]
    /\ lastRec' = NoRec
    /\ UNCHANGED <<plan, cachedRun, taskRuns, execution, scheduling, labelPatches>>

\* A ReconcileOverhead of the running run patches the throttle label.
LabelPatched ==
    /\ Running
    /\ LET t == tagPipelineRunsWithTaskRunsGettingThrottled(pipelineRun, taskRuns, {}, "ok")
       IN  /\ t.patch.called
           /\ pipelineRun' = [pipelineRun EXCEPT !.label = t.patch.value]
    /\ lastRec' = NoRec
    /\ UNCHANGED <<plan, cachedRun, taskRuns, execution, scheduling, labelPatches>>

\* The informer's periodic resync: an update with the run as it is.
Resync ==
    /\ pipelineRun.exists
    /\ lastRec' = NoRec
    /\ UNCHANGED <<plan, pipelineRun, cachedRun, taskRuns, execution, scheduling, labelPatches>>

(***************************************************************************)
(* ReconcileOverhead on a complete run                                     *)
(***************************************************************************)

\* The timestamps of a run with three steps: the mock run of the reconciler's
\* tests (created at T, started 5 s and completed 6 min later), and two runs
\* shorter than the noise threshold, one of them started as it was created;
\* and a run whose first step runs on while two further steps are created.
Timelines ==
    { [prCreated |-> 0, prStart |-> 5000, prCompletion |-> 360000,
       created    |-> [t1 |-> 0, t2 |-> 5000, t3 |-> 20000],
       completion |-> [t1 |-> 4000, t2 |-> 15000, t3 |-> 350000]],
      [prCreated |-> 0, prStart |-> 0, prCompletion |-> 60000,
       created    |-> [t1 |-> 2000, t2 |-> 20000, t3 |-> 40000],
       completion |-> [t1 |-> 15000, t2 |-> 35000, t3 |-> 59000]],
      [prCreated |-> 0, prStart |-> 1000, prCompletion |-> 60000,
       created    |-> [t1 |-> 2000, t2 |-> 20000, t3 |-> 40000],
       completion |-> [t1 |-> 15000, t2 |-> 35000, t3 |-> 59000]],
      [prCreated |-> 0, prStart |-> 1000, prCompletion |-> 360000,
       created    |-> [t1 |-> 1000, t2 |-> 200000, t3 |-> 251000],
       completion |-> [t1 |-> 350000, t2 |-> 250000, t3 |-> 355000]] }

AnalysisStepNames == {StepNames[i] : i \in DOMAIN StepNames}

\* A done run on timeline tl. started, stamped: Status.StartTime and
\* Status.CompletionTime are set; nrefs: the child references it lists.
AnalysisPipelineRun(tl, cond, label, started, stamped, nrefs) ==
    [exists |-> TRUE, name |-> "run-1", generateName |-> "",
     ref |-> [nil |-> FALSE, name |-> "pipeline-a", params |-> << >>],
     created |-> tl.prCreated,
     start |-> IF started THEN tl.prStart ELSE NoTime,
     completion |-> IF stamped THEN tl.prCompletion ELSE NoTime,
     cond |-> cond,
     refs |-> [i \in 1..nrefs |-> [kind |-> "TaskRun", name |-> StepNames[i]]],
     label |-> label]

\* The stored TaskRuns: those of present. With completed they all succeeded and
\* carry completion times; without, none has a completion time and the last
\* is still Unknown, as the mock TaskRuns are.
AnalysisTaskRuns(tl, present, completed) ==
    [nm \in AnalysisStepNames |->
        IF nm \notin present THEN NoTaskRun(nm)
        ELSE [name |-> nm, exists |-> TRUE, created |-> tl.created[nm],
              completion |-> IF completed THEN tl.completion[nm] ELSE NoTime,
              cond |-> IF completed \/ nm # "t3" THEN "True" ELSE "Unknown",
              reason |-> IF completed \/ nm # "t3" THEN "Succeeded" ELSE "Running",
              labels |-> TaskLabels(nm)]]

\* calculateScheduledDurationPipelineRun: seconds, kept as milliseconds / 1000;
\* pipelineRun.Status.StartTime.Time is read whether or not StartTime is nil.
calculateScheduledDurationPipelineRun(p) ==
    IF p.start = NoTime THEN [panicked |-> TRUE]
    ELSE [panicked |-> FALSE, num |-> calculateScheduledDuration(p.created, p.start),
          den |-> 1000]

\* startTimeEventFilter.Update on an update of a PipelineRun: [result,
\* panicked, observed], observed being what bumpPipelineRunScheduledDuration
\* hands to f.metric.
StartTimeEventFilter_Update(oldPR, newPR) ==
    IF ~IsDone(oldPR) /\ IsDone(newPR)
    THEN LET d == calculateScheduledDurationPipelineRun(newPR)
         IN  IF d.panicked
             THEN [result |-> FALSE, panicked |-> TRUE, observed |-> << >>]
             ELSE [result |-> FALSE, panicked |-> FALSE,
                   observed |-> <<Observation(IF newPR.cond = "False" THEN FAILED
                                              ELSE SUCCEEDED, d.num, d.den)>>]
    ELSE [result |-> FALSE, panicked |-> FALSE, observed |-> << >>]

AnalysisIdle == analysisIn = Unset /\ analysisOut = Unset /\ startOut = Unset

AnalysisStart ==
    /\ \E tl \in Timelines, cond \in {"True", "False"}, label \in {NoLabel, "t3"},
          started \in BOOLEAN, stamped \in BOOLEAN, nrefs \in {0, Len(StepNames)},
          present \in SUBSET AnalysisStepNames, completed \in BOOLEAN,
          errs \in {{}} \cup {{nm} : nm \in AnalysisStepNames} :
          analysisIn = [set |-> TRUE,
                        pr |-> AnalysisPipelineRun(tl, cond, label, started, stamped, nrefs),
                        trs |-> AnalysisTaskRuns(tl, present, completed),
                        errs |-> errs]
    /\ analysisOut = Unset
    /\ startOut = Unset

\* One ReconcileOverhead of the run, FILTER_THRESHOLD being unset.
AnalyseRun ==
    /\ ~analysisOut.set
    /\ analysisOut' = [set |-> TRUE,
                       out |-> ReconcileOverhead("nil", analysisIn.pr, analysisIn.trs,
                                                 analysisIn.errs, "ok", << >>)]
    /\ UNCHANGED <<analysisIn, startOut>>

\* startTimeEventFilter.Update on an update that leaves the run done: the one
\* in which it became done, or a later one of the done run.
ObserveStartTime ==
    /\ ~startOut.set
    /\ \E oldCond \in {"Unknown", analysisIn.pr.cond} :
          LET oldPR == IF oldCond = "Unknown"
                       THEN [analysisIn.pr EXCEPT !.cond = "Unknown", !.completion = NoTime]
                       ELSE analysisIn.pr
          IN  startOut' = [set |-> TRUE, old |-> oldPR,
                           out |-> StartTimeEventFilter_Update(oldPR, analysisIn.pr)]
    /\ UNCHANGED <<analysisIn, analysisOut>>

(***************************************************************************)
(* pipelineRunPipelineRef and taskRef on their inputs                      *)
(***************************************************************************)

MaxParams == 2

\* The parameters a pipeline reference is given: one named "name", one whose
\* name trims to "name", one of another name.
ParamPool ==
    {[name |-> "name", value |-> "pipeline-b"],
     [name |-> " name ", value |-> "pipeline-c"],
     [name |-> "kind", value |-> "pipeline"]}

ParamLists == UNION {[1..n -> ParamPool] : n \in 0..MaxParams}

PipelineRefs ==
    {[nil |-> TRUE]}
    \cup {[nil |-> FALSE, name |-> nm, params |-> ps] :
             nm \in {"", "pipeline-a"}, ps \in ParamLists}

IdentLabels ==
    {[task |-> t, pipelineTask |-> pt, clusterTask |-> ct, taskRun |-> tr] :
        t \in {"", "task-a"}, pt \in {"", "ptask-a"},
        ct \in {"", "ctask-a"}, tr \in {"", "taskrun-a"}}

IdentIdle == identIn = Unset /\ runRefOut = Unset /\ taskRefOut = Unset

IdentStart ==
    /\ \E ref \in PipelineRefs, gn \in {"", "run-"}, labels \in IdentLabels :
          identIn = [set |-> TRUE,
                     pr |-> [name |-> "run-1", generateName |-> gn, ref |-> ref],
                     labels |-> labels]
    /\ runRefOut = Unset
    /\ taskRefOut = Unset

IdentifyRun ==
    /\ ~runRefOut.set
    /\ runRefOut' = [set |-> TRUE, val |-> pipelineRunPipelineRef(identIn.pr)]
    /\ UNCHANGED <<identIn, taskRefOut>>

IdentifyStep ==
    /\ ~taskRefOut.set
    /\ taskRefOut' = [set |-> TRUE, val |-> taskRef(identIn.labels)]
    /\ UNCHANGED <<identIn, runRefOut>>

(***************************************************************************)
(* buildLastScanCopy on maps held by reference                             *)
(***************************************************************************)

\* Inner maps the heap may hold.
MaxAddrs == 5

CopyNamespaces == {"ns1", "ns2"}
NoRefs == [ns \in {} |-> 0]

\* The scan a map of references stands for: namespace -> set of names.
Deref(h, m) == [ns \in DOMAIN m |-> h[m[ns]]]

\* The loop of buildLastScanCopy over the namespaces todo of m: acc.heap grows
\* by one new inner map per namespace, filled from the inner map of m.
RECURSIVE CopyInnerMaps(_, _, _)
CopyInnerMaps(acc, m, todo) ==
    IF todo = {} THEN acc
    ELSE LET ns == CHOOSE n \in todo : TRUE
             newPrMap == acc.heap[m[ns]]
             h2 == Append(acc.heap, newPrMap)
         IN  CopyInnerMaps([heap |-> h2,
                            copy |-> [k \in DOMAIN acc.copy \cup {ns} |->
                                         IF k = ns THEN Len(h2) ELSE acc.copy[k]]],
                           m, todo \ {ns})

BuildLastScanCopy_Shallow(h, m) ==
    [heap |-> h, copy |-> m, keys |-> DOMAIN m]

\* buildLastScanCopy(collector, m) on the heap h: [heap, copy, keys], keys being
\* what innerReset is called with.
buildLastScanCopyOnHeap(h, m) ==
    LET c == CopyInnerMaps([heap |-> h, copy |-> NoRefs], m, DOMAIN m)
    IN  [heap |-> c.heap, copy |-> c.copy, keys |-> DOMAIN m]

CopyIdle ==
    /\ scanHeap = << >>
    /\ currentRef = NoRefs
    /\ lastRef = NoRefs
    /\ resetKeys = {}
    /\ copied = Unset

CopyStart == CopyIdle

\* PerformDeadlockDetection's writes to d.currentScan for a failing object: the
\* inner map of ns is made if there is none, and name is put into it.
ScanAdd(ns, name) ==
    /\ ns \in DOMAIN currentRef \/ Len(scanHeap) < MaxAddrs
    /\ LET alreadyHit == ns \in DOMAIN currentRef
           h1 == IF alreadyHit THEN scanHeap ELSE Append(scanHeap, {})
           m1 == IF alreadyHit THEN currentRef
                 ELSE [k \in DOMAIN currentRef \cup {ns} |->
                          IF k = ns THEN Len(h1) ELSE currentRef[k]]
       IN  /\ scanHeap' = [h1 EXCEPT ![m1[ns]] = @ \cup {name}]
           /\ currentRef' = m1
    /\ UNCHANGED <<lastRef, resetKeys, copied>>

\* The current scan is cleared in place: every inner map is emptied and the
\* outer map loses its keys.
ScanClear ==
    /\ currentRef # NoRefs
    /\ scanHeap' = [a \in DOMAIN scanHeap |->
                       IF \E ns \in DOMAIN currentRef : currentRef[ns] = a
                       THEN {} ELSE scanHeap[a]]
    /\ currentRef' = NoRefs
    /\ UNCHANGED <<lastRef, resetKeys, copied>>

\* d.lastScan = buildLastScanCopy(d.collector, d.currentScan)
ScanCopy ==
    /\ Len(scanHeap) + Cardinality(DOMAIN currentRef) <= MaxAddrs
    /\ LET c == buildLastScanCopyOnHeap(scanHeap, currentRef)
       IN  /\ scanHeap' = c.heap
           /\ lastRef' = c.copy
           /\ resetKeys' = c.keys
    /\ copied' = [set |-> TRUE, scan |-> Deref(scanHeap, currentRef)]
    /\ UNCHANGED currentRef

(***************************************************************************)
(* taskRefWaitTimeFilter and pipelineRefWaitTimeFilter                     *)
(***************************************************************************)

MaxTransition == 2
MaxWaitUpdates == 3

TaskRunReasonResolvingTaskRef == "ResolvingTaskRef"
ReasonResolvingPipelineRef == "ResolvingPipelineRef"

\* Duration.Milliseconds() of the difference of two times held in seconds.
SubMilliseconds(t, u) == (t - u) * 1000

\* What Update did: its return value, what it handed to f.waitDuration and
\* whether it logged the changed resolving condition.
WaitOut(observed, logged) == [result |-> FALSE, observed |-> observed, logged |-> logged]

TaskRefWaitTimeFilter_Update_ObservesRepeat(oldTR, newTR) ==
    IF newTR.cond = "nil" THEN WaitOut(<< >>, FALSE)
    ELSE IF ~IsDone(oldTR) /\ IsDone(newTR)
    THEN WaitOut(IF newTR.refNil THEN <<0>> ELSE << >>, FALSE)
    ELSE IF IsDone(newTR) THEN WaitOut(<< >>, FALSE)
    ELSE IF oldTR.cond = "nil" THEN WaitOut(<< >>, FALSE)
    ELSE IF oldTR.reason = TaskRunReasonResolvingTaskRef
            /\ (newTR.reason # TaskRunReasonResolvingTaskRef \/ oldTR.ltt # newTR.ltt)
    THEN WaitOut(<<SubMilliseconds(newTR.ltt, oldTR.ltt)>>, FALSE)
    ELSE WaitOut(<< >>, FALSE)

\* taskRefWaitTimeFilter.Update on an update of a TaskRun; cond is "nil" for
\* an object without a Succeeded condition, ltt the condition's
\* LastTransitionTime in seconds, refNil whether Spec.TaskRef is nil.
taskRefWaitTimeFilter_Update(oldTR, newTR) ==
    IF newTR.cond = "nil" THEN WaitOut(<< >>, FALSE)
    ELSE IF ~IsDone(oldTR) /\ IsDone(newTR)
    THEN WaitOut(IF newTR.refNil THEN <<0>> ELSE << >>, FALSE)
    ELSE IF IsDone(newTR) THEN WaitOut(<< >>, FALSE)
    ELSE IF oldTR.cond = "nil" THEN WaitOut(<< >>, FALSE)
    ELSE IF oldTR.reason = TaskRunReasonResolvingTaskRef
            /\ newTR.reason # TaskRunReasonResolvingTaskRef
    THEN WaitOut(<<SubMilliseconds(newTR.ltt, oldTR.ltt)>>, FALSE)
    ELSE IF oldTR.reason = TaskRunReasonResolvingTaskRef
            /\ newTR.reason = TaskRunReasonResolvingTaskRef
            /\ oldTR.ltt # newTR.ltt
    THEN WaitOut(<< >>, TRUE)
    ELSE WaitOut(<< >>, FALSE)

PipelineRefWaitTimeFilter_Update_NoDoneReturn(oldPR, newPR) ==
    IF newPR.cond = "nil" THEN WaitOut(<< >>, FALSE)
    ELSE LET zero == IF ~IsDone(oldPR) /\ IsDone(newPR) /\ newPR.refNil
                     THEN <<0>> ELSE << >>
         IN  IF oldPR.cond = "nil" THEN WaitOut(zero, FALSE)
             ELSE IF oldPR.reason = ReasonResolvingPipelineRef
                     /\ newPR.reason # ReasonResolvingPipelineRef
             THEN WaitOut(zero \o <<SubMilliseconds(newPR.ltt, oldPR.ltt)>>, FALSE)
             ELSE IF oldPR.reason = ReasonResolvingPipelineRef
                     /\ newPR.reason = ReasonResolvingPipelineRef
                     /\ oldPR.ltt # newPR.ltt
             THEN WaitOut(zero, TRUE)
             ELSE WaitOut(zero, FALSE)

\* pipelineRefWaitTimeFilter.Update on an update of a PipelineRun; after the
\* zero it observes for a run done without a reference it goes on to the
\* IsDone check, which returns.
pipelineRefWaitTimeFilter_Update(oldPR, newPR) ==
    IF newPR.cond = "nil" THEN WaitOut(<< >>, FALSE)
    ELSE LET zero == IF ~IsDone(oldPR) /\ IsDone(newPR) /\ newPR.refNil
                     THEN <<0>> ELSE << >>
         IN  IF IsDone(newPR) THEN WaitOut(zero, FALSE)
             ELSE IF oldPR.cond = "nil" THEN WaitOut(zero, FALSE)
             ELSE IF oldPR.reason = ReasonResolvingPipelineRef
                     /\ newPR.reason # ReasonResolvingPipelineRef
             THEN WaitOut(zero \o <<SubMilliseconds(newPR.ltt, oldPR.ltt)>>, FALSE)
             ELSE IF oldPR.reason = ReasonResolvingPipelineRef
                     /\ newPR.reason = ReasonResolvingPipelineRef
                     /\ oldPR.ltt # newPR.ltt
             THEN WaitOut(zero, TRUE)
             ELSE WaitOut(zero, FALSE)

\* Create, Delete and Generic of either filter.
WaitTimeFilter_Other == FALSE

WaitKinds == {"TaskRun", "PipelineRun"}

Resolving(kind) ==
    IF kind = "TaskRun" THEN TaskRunReasonResolvingTaskRef ELSE ReasonResolvingPipelineRef

\* The reasons the controller gives a Succeeded condition of status st; an
\* object without a reference is never resolving one.
WaitReasons(kind, refNil, st) ==
    IF st = "Unknown"
    THEN (IF refNil THEN {} ELSE {Resolving(kind)}) \cup {"Running"}
    ELSE IF st = "True" THEN {"Succeeded"} ELSE {"Failed"}

NoWait == [kind |-> "none"]

WaitIdle ==
    waitObj = Unset /\ waitHist = << >> /\ waitUpdates = 0 /\ lastWait = NoWait

\* A new object, its status not yet initialised.
WaitStart ==
    /\ \E kind \in WaitKinds, refNil \in BOOLEAN :
          waitObj = [set |-> TRUE, kind |-> kind, refNil |-> refNil, deleted |-> FALSE,
                     cond |-> "nil", reason |-> "", ltt |-> 0]
    /\ waitHist = << >>
    /\ waitUpdates = 0
    /\ lastWait = NoWait

\* The controller writes the object and the watch hands the update to the
\* object's filter: the condition moves on (it leaves resolving for good, done
\* is final), keeps its reason with another transition time, or stays.
WaitUpdate(st, reason, t) ==
    /\ ~waitObj.deleted
    /\ waitUpdates < MaxWaitUpdates
    /\ reason \in WaitReasons(waitObj.kind, waitObj.refNil, st)
    /\ t >= waitObj.ltt
    /\ IsDone(waitObj) => st = waitObj.cond /\ t = waitObj.ltt
    /\ (waitObj.cond = "Unknown" /\ waitObj.reason = "Running") => reason # Resolving(waitObj.kind)
    /\ LET new == [waitObj EXCEPT !.cond = st, !.reason = reason, !.ltt = t]
           out == IF waitObj.kind = "TaskRun"
                  THEN taskRefWaitTimeFilter_Update(waitObj, new)
                  ELSE pipelineRefWaitTimeFilter_Update(waitObj, new)
       IN  /\ waitObj' = new
           /\ waitHist' = waitHist \o out.observed
           /\ lastWait' = [kind |-> "update", old |-> waitObj, new |-> new, out |-> out]
    /\ waitUpdates' = waitUpdates + 1

\* The create event of the object.
WaitCreate ==
    /\ waitUpdates = 0 /\ lastWait = NoWait
    /\ lastWait' = [kind |-> "create", result |-> WaitTimeFilter_Other]
    /\ UNCHANGED <<waitObj, waitHist, waitUpdates>>

WaitGeneric ==
    /\ ~waitObj.deleted
    /\ lastWait.kind # "generic"
    /\ lastWait' = [kind |-> "generic", result |-> WaitTimeFilter_Other]
    /\ UNCHANGED <<waitObj, waitHist, waitUpdates>>

WaitDelete ==
    /\ ~waitObj.deleted
    /\ waitObj' = [waitObj EXCEPT !.deleted = TRUE]
    /\ lastWait' = [kind |-> "delete", result |-> WaitTimeFilter_Other]
    /\ UNCHANGED <<waitHist, waitUpdates>>

(***************************************************************************)
(* Specifications                                                          *)
(***************************************************************************)

TrackerIdle ==
    /\ trackerFilter = {}
    /\ flaggedNamespaces = {}
    /\ lastScan = EmptyScan
    /\ currentScan = EmptyScan
    /\ gauge = [ns \in Namespaces |-> 0]
    /\ cyclePc = "idle"
    /\ polled = {}
    /\ cycles = 0
    /\ streak = [o \in Objects |-> 0]
    /\ incFor = [o \in Objects |-> 0]
    /\ lastPoll = NoPoll

\* The polling collectors' deadlock tracker.
TrackerInit == TrackerStart /\ FilterIdle /\ GapIdle /\ RecIdle /\ AnalysisIdle /\ EventIdle /\ IdentIdle /\ CopyIdle /\ WaitIdle
TrackerStep ==
    \/ BeginCycle /\ UNCHANGED <<filterVars, gapVars, recVars, analysisVars, eventVars, identVars, copyVars, waitVars>>
    \/ (\E o \in Objects, deadlocked \in BOOLEAN : Poll(o, deadlocked))
          /\ UNCHANGED <<filterVars, gapVars, recVars, analysisVars, eventVars, identVars, copyVars, waitVars>>
    \/ EndCycle /\ UNCHANGED <<filterVars, gapVars, recVars, analysisVars, eventVars, identVars, copyVars, waitVars>>
SpecTracker == TrackerInit /\ [][TrackerStep]_vars

\* filter on every input of FilterStart.
FilterInit == FilterStart /\ TrackerIdle /\ GapIdle /\ RecIdle /\ AnalysisIdle /\ EventIdle /\ IdentIdle /\ CopyIdle /\ WaitIdle
FilterStep == ApplyFilter /\ UNCHANGED <<trackerVars, gapVars, recVars, analysisVars, eventVars, identVars, copyVars, waitVars>>
SpecFilter == FilterInit /\ [][FilterStep]_vars

\* sortTaskRunsForGapCalculations and calculateGaps on every run of GapStart.
GapInit == GapStart /\ TrackerIdle /\ FilterIdle /\ RecIdle /\ AnalysisIdle /\ EventIdle /\ IdentIdle /\ CopyIdle /\ WaitIdle
GapStep == ReconstructGaps /\ UNCHANGED <<trackerVars, filterVars, recVars, analysisVars, eventVars, identVars, copyVars, waitVars>>
SpecGaps == GapInit /\ [][GapStep]_vars

\* One run from creation to deletion, its steps, the informer cache and the
\* reconciles of the run.
RecOthers0 == <<trackerVars, filterVars, gapVars, analysisVars, identVars, copyVars, waitVars>>
RecOthers == <<RecOthers0, eventVars>>
RecInit == RecStart /\ TrackerIdle /\ FilterIdle /\ GapIdle /\ AnalysisIdle /\ EventIdle /\ IdentIdle /\ CopyIdle /\ WaitIdle
RecStep ==
    \/ TektonStart /\ UNCHANGED RecOthers
    \/ TektonCreateStep /\ UNCHANGED RecOthers
    \/ (\E nm \in RunStepNames,
            reason \in {"Running", ReasonExceededResourceQuota,
                        ReasonExceededNodeResources} : StepThrottle(nm, reason))
          /\ UNCHANGED RecOthers
    \/ (\E nm \in RunStepNames, cond \in {"True", "False"} : StepFinish(nm, cond))
          /\ UNCHANGED RecOthers
    \/ (\E nm \in RunStepNames : StepDelete(nm)) /\ UNCHANGED RecOthers
    \/ (\E cond \in {"True", "False"}, stamped \in BOOLEAN : TektonDone(cond, stamped))
          /\ UNCHANGED RecOthers
    \/ TektonStamp /\ UNCHANGED RecOthers
    \/ RunDelete /\ UNCHANGED RecOthers
    \/ InformerSync /\ UNCHANGED RecOthers
    \/ (\E getErr \in BOOLEAN, errs \in {{}} \cup {{nm} : nm \in RunStepNames},
            patchFails \in BOOLEAN : Reconcile(getErr, errs, patchFails))
          /\ UNCHANGED RecOthers
SpecReconcile == RecInit /\ [][RecStep]_vars

\* ReconcileOverhead on every run of AnalysisStart.
AnalysisInit ==
    AnalysisStart /\ TrackerIdle /\ FilterIdle /\ GapIdle /\ RecIdle /\ EventIdle /\ IdentIdle /\ CopyIdle /\ WaitIdle
AnalysisStep ==
    \/ AnalyseRun /\ UNCHANGED <<trackerVars, filterVars, gapVars, recVars, eventVars, identVars, copyVars, waitVars>>
    \/ ObserveStartTime /\ UNCHANGED <<trackerVars, filterVars, gapVars, recVars, eventVars, identVars, copyVars, waitVars>>
SpecAnalysis == AnalysisInit /\ [][AnalysisStep]_vars

\* One run from creation to deletion, and the update events of the run as
\* overheadGapEventFilter sees them.
FetchErrors == {{}} \cup {{nm} : nm \in RunStepNames}
EventInit ==
    RecStart /\ EventIdle /\ TrackerIdle /\ FilterIdle /\ GapIdle /\ AnalysisIdle /\ IdentIdle /\ CopyIdle /\ WaitIdle
EventStep ==
    \/ (\E errs \in FetchErrors : TektonStart /\ DeliverUpdate(errs)) /\ UNCHANGED RecOthers0
    \/ (\E errs \in FetchErrors : TektonCreateStep /\ DeliverUpdate(errs))
          /\ UNCHANGED RecOthers0
    \/ (\E errs \in FetchErrors : TektonCreateCustomRun /\ DeliverUpdate(errs))
          /\ UNCHANGED RecOthers0
    \/ (\E nm \in RunStepNames,
            reason \in {"Running", ReasonExceededResourceQuota,
                        ReasonExceededNodeResources} : StepThrottle(nm, reason))
          /\ NoDelivery /\ UNCHANGED RecOthers0
    \/ (\E nm \in RunStepNames, cond \in {"True", "False"} : StepFinish(nm, cond))
          /\ NoDelivery /\ UNCHANGED RecOthers0
    \/ (\E nm \in RunStepNames : StepDelete(nm)) /\ NoDelivery /\ UNCHANGED RecOthers0
    \/ (\E cond \in {"True", "False"}, stamped \in BOOLEAN, errs \in FetchErrors :
            TektonDone(cond, stamped) /\ DeliverUpdate(errs))
          /\ UNCHANGED RecOthers0
    \/ (\E errs \in FetchErrors : TektonStamp /\ DeliverUpdate(errs)) /\ UNCHANGED RecOthers0
    \/ (\E errs \in FetchErrors : LabelPatched /\ DeliverUpdate(errs)) /\ UNCHANGED RecOthers0
    \/ (\E errs \in FetchErrors : Resync /\ DeliverUpdate(errs)) /\ UNCHANGED RecOthers0
    \/ RunDelete /\ NoDelivery /\ UNCHANGED RecOthers0
SpecEvents == EventInit /\ [][EventStep]_vars

\* pipelineRunPipelineRef and taskRef on every input of IdentStart.
IdentInit ==
    IdentStart /\ TrackerIdle /\ FilterIdle /\ GapIdle /\ RecIdle /\ AnalysisIdle /\ EventIdle /\ CopyIdle /\ WaitIdle
IdentStep ==
    \/ IdentifyRun
          /\ UNCHANGED <<trackerVars, filterVars, gapVars, recVars, analysisVars, eventVars, copyVars, waitVars>>
    \/ IdentifyStep
          /\ UNCHANGED <<trackerVars, filterVars, gapVars, recVars, analysisVars, eventVars, copyVars, waitVars>>
SpecIdentifiers == IdentInit /\ [][IdentStep]_vars

\* buildLastScanCopy between writes to the scan it copies.
CopyInit ==
    CopyStart /\ TrackerIdle /\ FilterIdle /\ GapIdle /\ RecIdle /\ AnalysisIdle /\ EventIdle /\ IdentIdle /\ WaitIdle
CopyStep ==
    \/ (\E ns \in CopyNamespaces, name \in Names : ScanAdd(ns, name))
          /\ UNCHANGED <<trackerVars, filterVars, gapVars, recVars, analysisVars, eventVars, identVars, waitVars>>
    \/ ScanClear
          /\ UNCHANGED <<trackerVars, filterVars, gapVars, recVars, analysisVars, eventVars, identVars, waitVars>>
    \/ ScanCopy
          /\ UNCHANGED <<trackerVars, filterVars, gapVars, recVars, analysisVars, eventVars, identVars, waitVars>>
SpecScanCopy == CopyInit /\ [][CopyStep]_vars

\* The life of one watched object under its wait-time filter.
WaitInit ==
    WaitStart /\ TrackerIdle /\ FilterIdle /\ GapIdle /\ RecIdle /\ AnalysisIdle /\ EventIdle /\ IdentIdle /\ CopyIdle
WaitStep ==
    \/ (\E st \in {"Unknown", "True", "False"},
           reason \in {TaskRunReasonResolvingTaskRef, ReasonResolvingPipelineRef,
                       "Running", "Succeeded", "Failed"},
           t \in 0..MaxTransition : WaitUpdate(st, reason, t))
          /\ UNCHANGED <<trackerVars, filterVars, gapVars, recVars, analysisVars, eventVars, identVars, copyVars>>
    \/ WaitCreate
          /\ UNCHANGED <<trackerVars, filterVars, gapVars, recVars, analysisVars, eventVars, identVars, copyVars>>
    \/ WaitGeneric
          /\ UNCHANGED <<trackerVars, filterVars, gapVars, recVars, analysisVars, eventVars, identVars, copyVars>>
    \/ WaitDelete
          /\ UNCHANGED <<trackerVars, filterVars, gapVars, recVars, analysisVars, eventVars, identVars, copyVars>>
SpecWaitTime == WaitInit /\ [][WaitStep]_vars

(***************************************************************************)
(* Claims about the tracker (checked under SpecTracker)                    *)
(***************************************************************************)

PollIn(ns) == lastPoll.kind = "poll" /\ lastPoll.evaluated /\ NsOf(lastPoll.obj) = ns
PrevFailing(d, ns) == IF ns \in DOMAIN d.lastScan THEN d.lastScan[ns] ELSE {}

\* C1: in a namespace that is not filtered, a poll of an object that fails now
\* but is not in the previous scan's failing set of its namespace calls no
\* IncCollector and adds no flagged namespace; an object in the first scan of a
\* failing streak has had no IncCollector call made for it.
C1_SingleFailureNeverFlags ==
    /\ \A o \in Objects :
          (NsOf(o) \notin trackerFilter /\ streak[o] <= 1) => incFor[o] = 0
    /\ (/\ lastPoll.kind = "poll"
        /\ lastPoll.deadlocked
        /\ NameOf(lastPoll.obj) \notin PrevFailing(lastPoll.before, NsOf(lastPoll.obj)))
       => /\ CountInc(lastPoll.log) = 0
          /\ lastPoll.after.flaggedNamespaces = lastPoll.before.flaggedNamespaces
          /\ lastPoll.after.gauge[NsOf(lastPoll.obj)] <= lastPoll.before.gauge[NsOf(lastPoll.obj)]

\* An object fails for the first time while another object of its namespace was
\* failing in the previous scan, and the namespace is not flagged by this poll.
C1_Witness ==
    /\ lastPoll.kind = "poll"
    /\ lastPoll.deadlocked
    /\ lastPoll.streakBefore = 0
    /\ PrevFailing(lastPoll.before, NsOf(lastPoll.obj)) # {}
    /\ NameOf(lastPoll.obj) \notin PrevFailing(lastPoll.before, NsOf(lastPoll.obj))
    /\ lastPoll.log = <<"Zero">>

\* C2 as stated: over a run of consecutive failing scans IncCollector is called
\* for the object exactly once in total.
C2_IncrementedOnceInTotal ==
    \A o \in Objects :
        (NsOf(o) \notin trackerFilter /\ streak[o] >= 2) => incFor[o] = 1

\* C2 (amended): an object failing in scans N and N+1 gets its namespace flagged
\* and one IncCollector call at scan N+1, and one more IncCollector call in each
\* further consecutive scan it fails in (streak - 1 calls over the streak); a
\* poll in which it passes calls no IncCollector.
C2_IncrementedOncePerScan ==
    /\ \A o \in Objects :
          NsOf(o) \notin trackerFilter => incFor[o] = Max(streak[o] - 1, 0)
    /\ (lastPoll.kind = "poll" /\ lastPoll.deadlocked /\ lastPoll.streakBefore >= 1)
       => /\ lastPoll.log = <<"Inc">>
          /\ NsOf(lastPoll.obj) \in lastPoll.after.flaggedNamespaces
          /\ lastPoll.after.gauge[NsOf(lastPoll.obj)]
                = lastPoll.before.gauge[NsOf(lastPoll.obj)] + 1
    /\ (lastPoll.kind = "poll" /\ ~lastPoll.deadlocked)
       => CountInc(lastPoll.log) = 0

\* An object has just failed its third consecutive scan.
C2_Witness ==
    /\ lastPoll.kind = "poll"
    /\ lastPoll.deadlocked
    /\ streak[lastPoll.obj] >= 3
    /\ incFor[lastPoll.obj] = 2

\* C3: when a polling cycle has ended, every namespace of the previous scan that
\* is absent from the current scan has a zero gauge and is not flagged.
C3_AbsentNamespaceCleared ==
    (cyclePc = "idle" /\ cycles >= 1)
    => \A ns \in DOMAIN lastScan \ DOMAIN currentScan :
          gauge[ns] = 0 /\ ns \notin flaggedNamespaces

\* A cycle has ended in which a namespace that had a failing object in the
\* previous scan was not seen, while another namespace is flagged.
C3_Witness ==
    /\ cyclePc = "idle"
    /\ \E ns \in DOMAIN lastScan \ DOMAIN currentScan : lastScan[ns] # {}
    /\ flaggedNamespaces # {}

(***************************************************************************)
(* Claims about calculateGaps (checked under SpecGaps)                     *)
(***************************************************************************)

GapSteps == {gapIn.pr.refs[i].name : i \in DOMAIN gapIn.pr.refs}
EntriesFor(name) ==
    {i \in DOMAIN gapOut.entries : gapOut.entries[i].upcoming = name}

\* C8: for a completed run with exactly one step, calculateGaps yields one gap,
\* the step's creation time minus the run's, with the run as predecessor,
\* tagged failed for a failed run and succeeded otherwise.
C8_SingleStepGap ==
    (gapOut.set /\ Len(gapIn.pr.refs) = 1)
    => /\ Len(gapOut.entries) = 1
       /\ gapOut.entries[1].gap = gapIn.trs["t1"].created - gapIn.pr.created
       /\ gapOut.entries[1].completed = "pipeline-a"
       /\ gapOut.entries[1].upcoming = "t1"
       /\ gapOut.entries[1].status
             = (IF gapIn.pr.cond = "False" THEN "failed" ELSE "succeded")

\* A failed run whose only step was created after the run.
C8_Witness ==
    /\ gapOut.set
    /\ Len(gapIn.pr.refs) = 1
    /\ gapIn.pr.cond = "False"
    /\ gapIn.pr.created = 1
    /\ gapIn.trs["t1"].created = 3
    /\ gapOut.entries[1].gap = 2

ExpectedThreshold(env) ==
    CASE env = << >> -> 300000
      [] env = <<"1", "0", "0", "0">> -> 1000
      [] env = <<"6", "0", "0", "0", "0", "0">> -> 600000
      [] env = <<"0">> -> 0
      [] env = <<"a", "b", "c">> -> 300000
      [] env = <<"-", "5">> -> 0 - 5

Reconciled == lastRec.kind = "reconcile" /\ lastRec.get = "nil"

\* ... and went on to tagPipelineRunsWithTaskRunsGettingThrottled.
TagInvoked ==
    /\ Reconciled
    /\ lastRec.seen.cond \in {"nil", "Unknown"}
    /\ \E i \in DOMAIN lastRec.seen.refs : lastRec.seen.refs[i].kind = "TaskRun"

\* The steps the run read by the latest reconcile references that were throttled
\* when it ran: Succeeded is Unknown for exceeding a quota or a node's resources.
ThrottledSteps ==
    {nm \in {lastRec.seen.refs[i].name : i \in DOMAIN lastRec.seen.refs} :
        /\ lastRec.steps[nm].exists
        /\ lastRec.steps[nm].cond = "Unknown"
        /\ lastRec.steps[nm].reason \in {"ExceededResourceQuota", "ExceededNodeResources"}}

\* C4: tagging a run that already carries the throttle label calls no Patch and
\* leaves the stored label as it was, whichever step is throttled.
C4_TaggingIsIdempotent ==
    (TagInvoked /\ lastRec.seen.label # NoLabel)
    => /\ ~lastRec.out.patch.called
       /\ pipelineRun.label = lastRec.stored.label

\* The run is labelled for t1 and tagged again while only t2 is throttled.
C4_Witness ==
    /\ TagInvoked
    /\ lastRec.seen.label = "t1"
    /\ ThrottledSteps = {"t2"}
    /\ pipelineRun.label = "t1"

\* C5 as stated: at most one label-setting Patch is applied to a run, and a
\* reconcile never changes a label that is present.
C5_LabelPatchedAtMostOnce ==
    /\ labelPatches <= 1
    /\ (lastRec.kind = "reconcile" /\ lastRec.stored.label # NoLabel)
       => pipelineRun.label = lastRec.stored.label

\* C6: ReconcileOverhead on a done run that carries the throttle label observes
\* neither overhead ratio, calls no Patch, and leaves the label in place.
C6_ThrottledRunNotAccounted ==
    (Reconciled /\ lastRec.seen.cond \in {"True", "False"}
                /\ lastRec.seen.label # NoLabel)
    => /\ lastRec.out.execution = << >>
       /\ lastRec.out.scheduling = << >>
       /\ ~lastRec.out.patch.called
       /\ pipelineRun.label = lastRec.seen.label

\* A labelled long run, complete with both its steps stored, is reconciled.
C6_Witness ==
    /\ Reconciled
    /\ lastRec.seen.cond = "True"
    /\ lastRec.seen.label # NoLabel
    /\ lastRec.seen.completion = 360000
    /\ Len(lastRec.seen.refs) = 2
    /\ \A nm \in RunStepNames : lastRec.steps[nm].exists /\ lastRec.steps[nm].cond = "True"

\* The run was unlabelled, in the copy read and as stored, when it was tagged.
TaggedUnlabelled ==
    /\ TagInvoked
    /\ lastRec.seen.label = NoLabel
    /\ lastRec.stored.label = NoLabel

Analysed == analysisIn.set /\ analysisOut.set

\* Some Get of a step made by the analysis failed with an error other than
\* not-found / some step asked for was not stored.
FetchFailed ==
    \E i \in DOMAIN analysisOut.out.fetched : analysisOut.out.fetched[i] \in analysisIn.errs
FetchMissed ==
    \E i \in DOMAIN analysisOut.out.fetched :
        /\ analysisOut.out.fetched[i] \notin analysisIn.errs
        /\ ~analysisIn.trs[analysisOut.out.fetched[i]].exists

\* The unlabelled successful run created at T, started at T+5s and completed
\* at T+6min, its three referenced steps stored and fetched.
EndToEndRun ==
    /\ Analysed
    /\ analysisIn.pr.created = 0
    /\ analysisIn.pr.start = 5000
    /\ analysisIn.pr.completion = 360000
    /\ analysisIn.pr.cond = "True"
    /\ analysisIn.pr.label = NoLabel
    /\ Len(analysisIn.pr.refs) = 3
    /\ \A nm \in AnalysisStepNames : analysisIn.trs[nm].exists
    /\ analysisIn.errs = {}

\* C11 as stated: the end-to-end run records one execution observation and one
\* scheduling observation of value 5000/360000.
C11_EndToEndSchedulingOverCreationToCompletion ==
    EndToEndRun
    => /\ Len(analysisOut.out.execution) = 1
       /\ Len(analysisOut.out.scheduling) = 1
       /\ analysisOut.out.scheduling[1].num * 360000
             = 5000 * analysisOut.out.scheduling[1].den

\* C11 (amended): the end-to-end run records one execution observation and one
\* scheduling observation of value 5000/355000, the total duration running
\* from the start time (T+5s) to the completion time.
C11_EndToEndSchedulingOverStartToCompletion ==
    EndToEndRun
    => /\ Len(analysisOut.out.execution) = 1
       /\ analysisOut.out.execution[1].status = SUCCEEDED
       /\ analysisOut.out.execution[1].den = 355000
       /\ analysisOut.out.scheduling = <<Observation(SUCCEEDED, 5000, 355000)>>
       /\ ~analysisOut.out.panicked

\* The end-to-end run with the steps as they are mocked: no completion times,
\* the third step still Unknown.
C11_Witness ==
    /\ EndToEndRun
    /\ analysisIn.trs["t3"].cond = "Unknown"
    /\ \A nm \in AnalysisStepNames : analysisIn.trs[nm].completion = NoTime
    /\ Len(analysisOut.out.execution) = 1
    /\ Len(analysisOut.out.scheduling) = 1

\* Some step the run references is not stored.
MissingReferencedStep ==
    \E i \in DOMAIN analysisIn.pr.refs : ~analysisIn.trs[analysisIn.pr.refs[i].name].exists

\* C12: ReconcileOverhead on a done run one of whose referenced steps cannot be
\* found observes no overhead, returns no error and asks for no requeue.
C12_MissingStepAbortsAnalysis ==
    (Analysed /\ MissingReferencedStep)
    => /\ analysisOut.out.execution = << >>
       /\ analysisOut.out.scheduling = << >>
       /\ analysisOut.out.result = Result(FALSE, "nil")
       /\ ~analysisOut.out.panicked

\* A run that would be accounted but for its second step, which is looked up
\* and not found.
C12_Witness ==
    /\ Analysed
    /\ analysisIn.pr.label = NoLabel
    /\ analysisIn.pr.start = 5000
    /\ analysisIn.pr.completion = 360000
    /\ analysisIn.errs = {}
    /\ {nm \in AnalysisStepNames : analysisIn.trs[nm].exists} = {"t1", "t3"}
    /\ analysisOut.out.fetched = <<"t1", "t2">>
    /\ FetchMissed
    /\ analysisOut.out.execution = << >>

\* C13 as stated: when a Get of a referenced step fails with an error other
\* than not-found while the gaps of a done run are reconstructed,
\* ReconcileOverhead returns an error or asks for a requeue.
C13_TransientFetchFailureIsRetried ==
    (Analysed /\ FetchFailed)
    => (analysisOut.out.result.err # "nil" \/ analysisOut.out.result.requeue)

(***************************************************************************)
(* Claims about overheadGapEventFilter (SpecEvents)                        *)
(***************************************************************************)

\* The latest step delivered an update of the run to the filter.
Updated == lastUpdate.kind = "update"

\* C14: Update lets no update through whose new run carries the throttle
\* label, whatever the old and new runs' done states are.
C14_LabelledRunNeverTriggers ==
    (Updated /\ lastUpdate.new.label # NoLabel) => ~lastUpdate.trigger

\* A labelled run goes from not done to done.
C14_Witness ==
    /\ Updated
    /\ lastUpdate.new.label # NoLabel
    /\ ~IsDone(lastUpdate.old)
    /\ IsDone(lastUpdate.new)
    /\ ~lastUpdate.trigger

\* C15: for an unlabelled run, Update lets the update through in which the run
\* becomes done, lets none through whose old run was done already, and over
\* all updates of the run lets at most one update of the done run through.
C15_DoneTransitionTriggersOnce ==
    /\ doneTriggers <= 1
    /\ (Updated /\ lastUpdate.new.label = NoLabel)
       => /\ (~IsDone(lastUpdate.old) /\ IsDone(lastUpdate.new)) => lastUpdate.trigger
          /\ IsDone(lastUpdate.old) => ~lastUpdate.trigger

\* A later update of the unlabelled done run, one of its steps left throttled,
\* after its done transition was let through.
C15_Witness ==
    /\ Updated
    /\ lastUpdate.new.label = NoLabel
    /\ IsDone(lastUpdate.old)
    /\ IsDone(lastUpdate.new)
    /\ doneTriggers = 1
    /\ ~lastUpdate.trigger
    /\ lastUpdate.steps["t1"].cond = "Unknown"
    /\ lastUpdate.steps["t1"].reason = "ExceededResourceQuota"
    /\ lastUpdate.errs = {}

\* The steps the new run of the latest update references that are throttled.
ThrottledRefs ==
    {i \in StepRefs(lastUpdate.new) :
        LET tr == lastUpdate.steps[lastUpdate.new.refs[i].name]
        IN  /\ tr.exists
            /\ tr.cond = "Unknown"
            /\ tr.reason \in {"ExceededResourceQuota", "ExceededNodeResources"}}

\* The update is of an unlabelled run that is not done after it.
UpdatedRunning ==
    /\ Updated
    /\ lastUpdate.new.label = NoLabel
    /\ ~IsDone(lastUpdate.new)

C17_RepeatedAnalysisCountsOnce ==
    (Reconciled /\ IsDone(lastRec.seen))
    => /\ lastRec.priorExecution + Len(lastRec.out.execution) <= 1
       /\ lastRec.priorScheduling + Len(lastRec.out.scheduling) <= 1

(***************************************************************************)
(* Claims about the two noise filters (SpecAnalysis)                       *)
(***************************************************************************)

\* The analysed run is one ReconcileOverhead accounts for: unlabelled, with
\* start and completion times, every step it references stored and fetched.
AccountedRun ==
    /\ Analysed
    /\ analysisIn.pr.label = NoLabel
    /\ analysisIn.pr.start # NoTime
    /\ analysisIn.pr.completion # NoTime
    /\ analysisIn.pr.refs # << >>
    /\ ~MissingReferencedStep
    /\ ~FetchFailed

\* C18: the scheduling ratio, start minus creation over completion minus start,
\* is recorded exactly when the scheduling duration is zero or the total
\* duration reaches the threshold, whether or not the execution ratio is
\* recorded.
C18_SchedulingFilteredOnItsOwn ==
    AccountedRun
    => LET p == analysisIn.pr
           suppressed == /\ (p.start - p.created) > 0
                         /\ (p.completion - p.start) < DEFAULT_THRESHOLD
       IN  analysisOut.out.scheduling =
              IF suppressed THEN << >>
              ELSE <<Observation(IF p.cond = "False" THEN FAILED ELSE SUCCEEDED,
                                 p.start - p.created, p.completion - p.start)>>

\* A short run started as it was created: the scheduling ratio, zero, is
\* recorded while the execution ratio is suppressed.
C18_Witness ==
    /\ AccountedRun
    /\ analysisIn.pr.start = analysisIn.pr.created
    /\ analysisIn.pr.completion = 60000
    /\ analysisOut.out.execution = << >>
    /\ Len(analysisOut.out.scheduling) = 1
    /\ analysisOut.out.scheduling[1].num = 0

(***************************************************************************)
(* Claims about runs without a start time (SpecAnalysis)                   *)
(***************************************************************************)

\* C19 as stated: neither ReconcileOverhead nor startTimeEventFilter.Update
\* dereferences a nil start time, whatever done run it is given.
C19_NoRunStateCrashes ==
    /\ analysisOut.set => ~analysisOut.out.panicked
    /\ startOut.set => ~startOut.out.panicked

(***************************************************************************)
(* Claims about the exclusion filter (SpecTracker)                         *)
(***************************************************************************)

\* C20: PerformDeadlockDetection on an object whose namespace is in d.filter
\* leaves d.currentScan, d.lastScan, d.flaggedNamespaces and the gauge as they
\* were, and calls neither d.deadlocked() nor the collector.
C20_FilteredNamespaceIsSkipped ==
    (lastPoll.kind = "poll" /\ NsOf(lastPoll.obj) \in lastPoll.before.filter)
    => /\ lastPoll.after = lastPoll.before
       /\ lastPoll.log = << >>
       /\ ~lastPoll.after.asked
       /\ currentScan = lastPoll.before.currentScan
       /\ lastScan = lastPoll.before.lastScan
       /\ flaggedNamespaces = lastPoll.before.flaggedNamespaces
       /\ gauge = lastPoll.before.gauge

\* An object of the excluded namespace that would fail the predicate is polled
\* in a second scan, other namespaces having failing objects.
C20_Witness ==
    /\ lastPoll.kind = "poll"
    /\ NsOf(lastPoll.obj) = "ns3"
    /\ trackerFilter = {"ns3"}
    /\ lastPoll.answer
    /\ cycles >= 2
    /\ lastScan # EmptyScan
    /\ "ns3" \notin DOMAIN currentScan


(***************************************************************************)
(* Claims about runs with nothing to analyse (SpecAnalysis)                *)
(***************************************************************************)

\* The analysed run is done but carries no completion time or references no
\* step.
NothingToAnalyse ==
    \/ analysisIn.pr.completion = NoTime
    \/ analysisIn.pr.refs = << >>

\* C21: ReconcileOverhead on a done run that has no completion time, or that
\* references no step, fetches no step, observes neither an execution nor a
\* scheduling overhead, returns no error and asks for no requeue.
C21_NothingToAnalyseIsSkipped ==
    (Analysed /\ NothingToAnalyse)
    => /\ analysisOut.out.fetched = << >>
       /\ analysisOut.out.execution = << >>
       /\ analysisOut.out.scheduling = << >>
       /\ analysisOut.out.result = Result(FALSE, "nil")
       /\ ~analysisOut.out.panicked

\* An unlabelled done run that references three stored steps but has no
\* completion time has been reconciled.
C21_Witness ==
    /\ Analysed
    /\ analysisIn.pr.label = NoLabel
    /\ analysisIn.pr.completion = NoTime
    /\ Len(analysisIn.pr.refs) = 3
    /\ \A nm \in AnalysisStepNames : analysisIn.trs[nm].exists
    /\ analysisIn.errs = {}
    /\ analysisOut.out.fetched = << >>
    /\ analysisOut.out.result = Result(FALSE, "nil")


(***************************************************************************)
(* Claims about a failing label Patch (SpecReconcile)                      *)
(***************************************************************************)

\* The latest reconcile called Patch and the Patch failed with an error other
\* than not-found, a conflict for instance.
PatchFailed ==
    /\ lastRec.kind = "reconcile"
    /\ lastRec.out.patch.called
    /\ lastRec.out.patch.outcome = "error"

\* C22: a label Patch that fails with a conflict is swallowed: the reconcile
\* that made it returns no error and asks for no requeue, made that one Patch
\* and left the stored label as it was; and the next reconcile of the run,
\* which is still unlabelled and throttled, goes on to tagging again and calls
\* Patch again unless a fetch of a step fails.
C22_PatchConflictSwallowedAndRetriedOnNextTrigger ==
    /\ PatchFailed
       => /\ lastRec.out.result = Result(FALSE, "nil")
          /\ pipelineRun.label = lastRec.stored.label
    /\ (Reconciled /\ lastRec.priorPatchFailed)
       => /\ TagInvoked
          /\ lastRec.seen.label = NoLabel
          /\ ThrottledSteps # {}
          /\ (lastRec.out.result.err = "nil" => lastRec.out.patch.called)

\* A Patch failed, and the reconcile after it, on the same unlabelled throttled
\* run, called Patch again and set the label.
C22_Witness ==
    /\ Reconciled
    /\ lastRec.priorPatchFailed
    /\ lastRec.out.patch.called
    /\ lastRec.out.patch.outcome = "ok"
    /\ lastRec.stored.label = NoLabel
    /\ pipelineRun.label = "t1"


(***************************************************************************)
(* Claims about the identifiers (SpecIdentifiers)                          *)
(***************************************************************************)

\* The positions of the reference's parameters whose trimmed name is "name".
NameParams ==
    IF identIn.pr.ref.nil THEN {}
    ELSE {i \in DOMAIN identIn.pr.ref.params :
             identIn.pr.ref.params[i].name \in {"name", " name "}}

\* C23: pipelineRunPipelineRef returns the pipeline reference's name if it is
\* not empty, else the value of the reference's first parameter named "name";
\* without a pipeline reference it returns the run's generate-name if that is
\* not empty, else the run's name. (A reference with neither a name nor such a
\* parameter yields the empty name.)
C23_PipelineRefPrecedence ==
    (identIn.set /\ runRefOut.set)
    => LET pr == identIn.pr
       IN  IF ~pr.ref.nil /\ pr.ref.name # "" THEN runRefOut.val = pr.ref.name
           ELSE IF ~pr.ref.nil /\ NameParams # {}
           THEN \E i \in NameParams :
                   /\ \A j \in NameParams : i <= j
                   /\ runRefOut.val = pr.ref.params[i].value
           ELSE IF ~pr.ref.nil THEN runRefOut.val = ""
           ELSE IF pr.generateName # "" THEN runRefOut.val = pr.generateName
           ELSE runRefOut.val = pr.name

\* A run with a generate-name whose reference has a name and, behind another
\* parameter, a parameter named "name": the reference's name is returned.
C23_Witness ==
    /\ identIn.set
    /\ runRefOut.set
    /\ ~identIn.pr.ref.nil
    /\ identIn.pr.ref.name = "pipeline-a"
    /\ identIn.pr.generateName = "run-"
    /\ NameParams = {2}
    /\ runRefOut.val = "pipeline-a"

\* C24: taskRef returns the task label if it is not empty, else the
\* pipeline-task label, else the cluster-task label, else the task-run label,
\* else the empty string.
C24_TaskRefPrecedence ==
    (identIn.set /\ taskRefOut.set)
    => LET l == identIn.labels
           order == <<l.task, l.pipelineTask, l.clusterTask, l.taskRun>>
           set == {i \in 1..4 : order[i] # ""}
       IN  IF set = {} THEN taskRefOut.val = ""
           ELSE \E i \in set : (\A j \in set : i <= j) /\ taskRefOut.val = order[i]

\* Labels with no task label but a pipeline-task, a cluster-task and a
\* task-run label: the pipeline-task label is returned.
C24_Witness ==
    /\ identIn.set
    /\ taskRefOut.set
    /\ identIn.labels.task = ""
    /\ identIn.labels.pipelineTask = "ptask-a"
    /\ identIn.labels.clusterTask = "ctask-a"
    /\ identIn.labels.taskRun = "taskrun-a"
    /\ taskRefOut.val = "ptask-a"


(***************************************************************************)
(* Claims about the reconstructed timeline (SpecGaps)                      *)
(***************************************************************************)

\* Entry i of gapOut.entries is the one calculateGaps made for gapOut.sorted[i].
\* The step is neither the earliest-created one nor classified parallel.
Chained(i) ==
    /\ i > 1
    /\ ~(/\ gapOut.sorted[1].completion # NoTime
         /\ gapOut.sorted[1].completion > gapOut.sorted[i].created)

\* The steps other than tr that completed no later than tr was created.
CompletedBefore(tr) ==
    {nm \in GapSteps :
        /\ nm # tr.name
        /\ gapIn.trs[nm].completion # NoTime
        /\ gapIn.trs[nm].completion <= tr.created}

\* C25 as stated: the gap of a step that is neither the earliest-created step
\* nor classified parallel is its creation time minus the latest completion
\* time among the other steps that completed no later than it was created, and
\* its creation time minus the run's when there is no such step.
C25_ChainedStepWorksOffLatestCompletedElseRun ==
    gapOut.set
    => \A i \in DOMAIN gapOut.entries :
          Chained(i)
          => LET tr == gapOut.sorted[i]
             IN  IF CompletedBefore(tr) = {}
                 THEN /\ gapOut.entries[i].gap = tr.created - gapIn.pr.created
                      /\ gapOut.entries[i].completed = "pipeline-a"
                 ELSE \E nm \in CompletedBefore(tr) :
                         /\ \A o \in CompletedBefore(tr) :
                               gapIn.trs[o].completion <= gapIn.trs[nm].completion
                         /\ gapOut.entries[i].gap = tr.created - gapIn.trs[nm].completion

\* Every step has a completion time, and creation of the run <= creation of
\* the step <= completion of the step.
ConsistentTimestamps ==
    \A nm \in GapSteps :
        /\ gapIn.trs[nm].completion # NoTime
        /\ gapIn.pr.created <= gapIn.trs[nm].created
        /\ gapIn.trs[nm].created <= gapIn.trs[nm].completion

\* C26: for a run of consistent timestamps every gap entry has a gap of at
\* least zero: the entry of a step is worked off the run's creation time or off
\* the completion time of another step, neither later than the step's creation
\* time, and no step is its own predecessor.
C26_GapsAreNonNegative ==
    (gapOut.set /\ ConsistentTimestamps)
    => \A i \in DOMAIN gapOut.entries :
          /\ gapOut.entries[i].gap >= 0
          /\ gapOut.entries[i].completed # gapOut.entries[i].upcoming
          /\ \/ /\ gapOut.entries[i].completed = "pipeline-a"
                /\ gapOut.entries[i].gap = gapOut.sorted[i].created - gapIn.pr.created
             \/ \E nm \in GapSteps \ {gapOut.sorted[i].name} :
                   /\ gapOut.entries[i].completed = nm
                   /\ gapIn.trs[nm].completion <= gapOut.sorted[i].created
                   /\ gapOut.entries[i].gap
                         = gapOut.sorted[i].created - gapIn.trs[nm].completion

\* Three steps of consistent timestamps: t2 is created while t1 runs and ends
\* when it is created, t3 is created after both have ended and is worked off
\* t1, the later of the two to complete.
C26_Witness ==
    /\ gapOut.set
    /\ ConsistentTimestamps
    /\ Len(gapIn.pr.refs) = 3
    /\ gapIn.trs["t1"].created = 0
    /\ gapIn.trs["t1"].completion = 2
    /\ gapIn.trs["t2"].created = 1
    /\ gapIn.trs["t2"].completion = 1
    /\ gapIn.trs["t3"].created = 3
    /\ gapOut.entries[2].completed = "pipeline-a"
    /\ gapOut.entries[3].completed = "t1"
    /\ gapOut.entries[3].gap = 1

\* C27: for a succeeded or failed run calculateGaps yields one gap entry for
\* each fetched step and no other, each tagged failed if the run's Succeeded
\* condition is False and succeeded otherwise, whatever the step's own
\* condition is.
C27_OneEntryPerStepTaggedWithRunOutcome ==
    (gapOut.set /\ ~gapOut.abort)
    => /\ Len(gapOut.entries) = Len(gapIn.pr.refs)
       /\ \A nm \in GapSteps : Cardinality(EntriesFor(nm)) = 1
       /\ \A i \in DOMAIN gapOut.entries :
             /\ gapOut.entries[i].upcoming \in GapSteps
             /\ gapOut.entries[i].status
                   = (IF gapIn.pr.cond = "False" THEN "failed" ELSE "succeded")

\* A succeeded run of three steps, all failed and one of them without a
\* completion time, has three entries tagged succeeded.
C27_Witness ==
    /\ gapOut.set
    /\ gapIn.pr.cond = "True"
    /\ Len(gapIn.pr.refs) = 3
    /\ \A nm \in GapSteps : gapIn.trs[nm].cond = "False"
    /\ gapIn.trs["t2"].completion = NoTime
    /\ gapIn.trs["t1"].completion # NoTime
    /\ Len(gapOut.entries) = 3
    /\ \A i \in 1..3 : gapOut.entries[i].status = "succeded"

\* The names of a sequence of steps.
NamesOf(trs) == {trs[i].name : i \in DOMAIN trs}
CompletedSteps == {nm \in GapSteps : gapIn.trs[nm].completion # NoTime}
AscendingByCreation(trs) ==
    \A i \in DOMAIN trs, j \in DOMAIN trs : i < j => trs[i].created <= trs[j].created
DescendingByCompletion(trs) ==
    \A i \in DOMAIN trs, j \in DOMAIN trs : i < j => trs[i].completion >= trs[j].completion

\* C28 as stated: both orderings hold exactly the steps that have a completion
\* time, the one ascending by creation time, the other descending by
\* completion time.
C28_BothOrderingsOverCompletedSteps ==
    (gapOut.set /\ ~gapOut.abort)
    => /\ NamesOf(gapOut.sorted) = CompletedSteps
       /\ Len(gapOut.sorted) = Cardinality(CompletedSteps)
       /\ AscendingByCreation(gapOut.sorted)
       /\ NamesOf(gapOut.reverse) = CompletedSteps
       /\ Len(gapOut.reverse) = Cardinality(CompletedSteps)
       /\ DescendingByCompletion(gapOut.reverse)

\* C28 (amended): the creation-ascending ordering holds every fetched step,
\* with or without a completion time; the completion-descending ordering holds
\* exactly the steps that have one.
C28_CreationOrderingOverAllSteps ==
    (gapOut.set /\ ~gapOut.abort)
    => /\ NamesOf(gapOut.sorted) = GapSteps
       /\ Len(gapOut.sorted) = Cardinality(GapSteps)
       /\ AscendingByCreation(gapOut.sorted)
       /\ NamesOf(gapOut.reverse) = CompletedSteps
       /\ Len(gapOut.reverse) = Cardinality(CompletedSteps)
       /\ DescendingByCompletion(gapOut.reverse)

\* Three steps created in the order t3, t2, t1, of which t2 has no completion
\* time and t3 completed before t1.
C28_Witness ==
    /\ gapOut.set
    /\ ~gapOut.abort
    /\ Len(gapIn.pr.refs) = 3
    /\ gapIn.trs["t2"].completion = NoTime
    /\ <<gapOut.sorted[1].name, gapOut.sorted[2].name, gapOut.sorted[3].name>>
          = <<"t3", "t2", "t1">>
    /\ Len(gapOut.reverse) = 2
    /\ <<gapOut.reverse[1].name, gapOut.reverse[2].name>> = <<"t1", "t3">>


(***************************************************************************)
(* Claims about flagged namespaces within a cycle (SpecTracker)            *)
(***************************************************************************)

\* The collector calls of a poll include ZeroCollector.
Zeroes(log) == \E i \in DOMAIN log : log[i] = "Zero"

\* C29: a poll made while its namespace is flagged calls no ZeroCollector and
\* leaves the namespace flagged and its gauge no lower; a poll calls
\* ZeroCollector only if its namespace is not flagged once the object has been
\* evaluated.
C29_FlaggedNamespaceIsNotZeroed ==
    [][(cyclePc = "polling" /\ cyclePc' = "polling")
       => /\ NsOf(lastPoll'.obj) \in flaggedNamespaces
             => /\ ~Zeroes(lastPoll'.log)
                /\ NsOf(lastPoll'.obj) \in flaggedNamespaces'
                /\ gauge'[NsOf(lastPoll'.obj)] >= gauge[NsOf(lastPoll'.obj)]
                /\ gauge'[NsOf(lastPoll'.obj)] >= 1
          /\ Zeroes(lastPoll'.log) => NsOf(lastPoll'.obj) \notin flaggedNamespaces'
          /\ \A ns \in Namespaces \ {NsOf(lastPoll'.obj)} : gauge'[ns] = gauge[ns]]_vars

\* An object that passes is polled in a namespace another object has flagged
\* in this cycle, and the gauge stays at 1.
C29_Witness ==
    /\ lastPoll.kind = "poll"
    /\ lastPoll.evaluated
    /\ ~lastPoll.answer
    /\ NsOf(lastPoll.obj) \in lastPoll.before.flaggedNamespaces
    /\ lastPoll.log = << >>
    /\ gauge[NsOf(lastPoll.obj)] = 1
    /\ NsOf(lastPoll.obj) \in flaggedNamespaces


\* The objects of ns that failed in the previous scan and, polled in this
\* cycle, fail again.
FailingBoth(last, current, ns) ==
    (IF ns \in DOMAIN last THEN last[ns] ELSE {})
       \cap (IF ns \in DOMAIN current THEN current[ns] ELSE {})

\* The gauge of ns counts the objects failing in both scans, and ns is flagged
\* exactly if there is one.
GaugeCounts(flagged, last, current, g, ns) ==
    /\ g[ns] = Cardinality(FailingBoth(last, current, ns))
    /\ ns \in flagged <=> FailingBoth(last, current, ns) # {}

\* C30: in a cycle that a namespace starts with a gauge of zero and unflagged,
\* after every poll the gauge of the namespace is the number of polled objects
\* that fail in the previous and in the current scan and the namespace is
\* flagged exactly if there is such an object, whatever the order of the polls:
\* the relation holds when the cycle starts and every poll preserves it.
C30_GaugeCountsRepeatedFailuresInAnyOrder ==
    [][cyclePc' = "polling"
       => \A ns \in Namespaces :
             (IF cyclePc = "idle"
              THEN gauge'[ns] = 0
              ELSE GaugeCounts(flaggedNamespaces, lastScan, currentScan, gauge, ns))
             => GaugeCounts(flaggedNamespaces', lastScan', currentScan', gauge', ns)]_vars

\* Every object of ns1 has been polled, both failed in the previous scan and
\* fail again, the object polled in between passed, and the gauge of ns1 is 2.
C30_Witness ==
    /\ cyclePc = "polling"
    /\ {o \in Objects : NsOf(o) = "ns1"} \subseteq polled
    /\ <<"a", "ns2">> \in polled
    /\ FailingBoth(lastScan, currentScan, "ns1") = {"a", "b"}
    /\ FailingBoth(lastScan, currentScan, "ns2") = {}
    /\ gauge["ns1"] = 2
    /\ gauge["ns2"] = 0
    /\ flaggedNamespaces = {"ns1"}


(***************************************************************************)
(* Claims about the copy of the scan (SpecScanCopy)                        *)
(***************************************************************************)

\* C31: the map buildLastScanCopy returns has the namespaces of the scan it
\* copied and the names of each, and keeps them whatever is added to or
\* cleared from the current scan afterwards: it shares no inner map with it.
C31_LastScanIsADeepCopy ==
    /\ copied.set
       => /\ Deref(scanHeap, lastRef) = copied.scan
          /\ \A ns \in DOMAIN lastRef, k \in DOMAIN currentRef :
                lastRef[ns] # currentRef[k]
    /\ \A ns \in DOMAIN lastRef : lastRef[ns] \in DOMAIN scanHeap

\* The scan {ns1: {a}} was copied, then cleared, and b was added to ns1: the
\* copy still holds a alone.
C31_Witness ==
    /\ copied.set
    /\ copied.scan = [ns \in {"ns1"} |-> {"a"}]
    /\ Deref(scanHeap, lastRef) = [ns \in {"ns1"} |-> {"a"}]
    /\ Deref(scanHeap, currentRef) = [ns \in {"ns1"} |-> {"b"}]


(***************************************************************************)
(* Claims about namespaces that stopped failing (SpecTracker)              *)
(***************************************************************************)

\* The scan holds no failing object of ns: ns is not a key of it, or is the
\* key of an empty set (its objects were polled and passed).
NoFailing(scan, ns) == ns \notin DOMAIN scan \/ scan[ns] = {}

RECURSIVE StepNamesOf(_)
StepNamesOf(refs) ==
    IF refs = << >> THEN << >>
    ELSE IF Head(refs).kind = "TaskRun" THEN <<Head(refs).name>> \o StepNamesOf(Tail(refs))
    ELSE StepNamesOf(Tail(refs))

\* The positions at which the scan of the latest reconcile ends early: the Get
\* fails with an error other than not-found, or the step is throttled.
ScanStops ==
    LET R == StepNamesOf(lastRec.seen.refs)
    IN  {i \in DOMAIN R : R[i] \in lastRec.errs \/ R[i] \in ThrottledSteps}

\* C33: the throttle scan of a running run goes through the references in
\* order past every step that is not found, up to the first step that is
\* throttled or whose Get fails with another error; on such an error
\* ReconcileOverhead returns the error, calls no Patch and leaves the label as
\* it was; a step that is not found yields no error.
C33_NotFoundToleratedOtherErrorsSurfaced ==
    TagInvoked
    => LET R == StepNamesOf(lastRec.seen.refs)
       IN  IF ScanStops = {}
           THEN /\ lastRec.out.fetched = R
                /\ lastRec.out.result = Result(FALSE, "nil")
                /\ ~lastRec.out.patch.called
           ELSE \E k \in ScanStops :
                   /\ \A j \in ScanStops : k <= j
                   /\ lastRec.out.fetched = SubSeq(R, 1, k)
                   /\ IF R[k] \in lastRec.errs
                      THEN /\ lastRec.out.result = Result(FALSE, "error")
                           /\ ~lastRec.out.patch.called
                           /\ pipelineRun.label = lastRec.stored.label
                      ELSE /\ lastRec.out.result.err \in {"nil", "notfound"}
                           /\ lastRec.out.patch.called <=> lastRec.seen.label = NoLabel

\* The first referenced step is not found and the second is throttled: the
\* scan went on past the first and the run was labelled for the second.
C33_Witness ==
    /\ TagInvoked
    /\ StepNamesOf(lastRec.seen.refs) = <<"t1", "t2">>
    /\ ~lastRec.steps["t1"].exists
    /\ lastRec.errs = {}
    /\ ThrottledSteps = {"t2"}
    /\ lastRec.out.fetched = <<"t1", "t2">>
    /\ lastRec.out.patch.called
    /\ pipelineRun.label = "t2"


(***************************************************************************)
(* Claims about fetches and observations (SpecAnalysis)                    *)
(***************************************************************************)

\* ReconcileOverhead observed an overhead for the analysed run.
Observed ==
    analysisOut.out.execution # << >> \/ analysisOut.out.scheduling # << >>

\* C34: ReconcileOverhead observes an overhead only once every referenced step
\* has been fetched, each Get having succeeded; when a Get fails, a cancelled
\* context included, neither the execution nor the scheduling overhead is
\* observed.
C34_NoObservationUnlessEveryFetchSucceeded ==
    Analysed
    => /\ Observed
          => /\ analysisOut.out.fetched = StepNamesOf(analysisIn.pr.refs)
             /\ \A i \in DOMAIN analysisOut.out.fetched :
                   /\ analysisOut.out.fetched[i] \notin analysisIn.errs
                   /\ analysisIn.trs[analysisOut.out.fetched[i]].exists
       /\ (FetchFailed \/ FetchMissed)
          => /\ analysisOut.out.execution = << >>
             /\ analysisOut.out.scheduling = << >>

\* The Get of the third step fails after the first two steps were fetched, on
\* an unlabelled done run that would otherwise be accounted: nothing is
\* observed.
C34_Witness ==
    /\ Analysed
    /\ analysisIn.pr.label = NoLabel
    /\ analysisIn.pr.start = 5000
    /\ analysisIn.pr.completion = 360000
    /\ \A nm \in AnalysisStepNames : analysisIn.trs[nm].exists
    /\ analysisIn.errs = {"t3"}
    /\ analysisOut.out.fetched = <<"t1", "t2", "t3">>
    /\ ~Observed


(***************************************************************************)
(* Claims about the order of the stages (SpecReconcile)                    *)
(***************************************************************************)

\* The latest reconcile read an unlabelled run with a step that was throttled,
\* every Get of a step succeeding.
ThrottledUnlabelled ==
    /\ Reconciled
    /\ isPipelineRunGoing(lastRec.seen)
    /\ lastRec.seen.label = NoLabel
    /\ ThrottledSteps # {}
    /\ lastRec.errs = {}

\* C35 as stated: the throttle detector, with its labelling side effect, runs
\* first on every run ReconcileOverhead reads, a completed run included, so an
\* unlabelled run with a throttled step has the label patched before any
\* overhead is recorded.
C35_ThrottleDetectionRunsFirst ==
    ThrottledUnlabelled
    => /\ lastRec.out.patch.called
       /\ lastRec.out.patch.value \in ThrottledSteps

\* C35, amended: ReconcileOverhead runs the throttle detector, with its
\* labelling side effect, on a run that is not done and records no overhead
\* then; on a completed run it goes to timeline reconstruction and overhead
\* aggregation without throttle detection and calls no Patch.
C35_ThrottleDetectionOnlyWhileRunning ==
    Reconciled
    => /\ (ThrottledUnlabelled /\ ~IsDone(lastRec.seen))
          => /\ lastRec.out.patch.called
             /\ lastRec.out.patch.value \in ThrottledSteps
       /\ ~IsDone(lastRec.seen)
          => /\ lastRec.out.execution = << >>
             /\ lastRec.out.scheduling = << >>
       /\ IsDone(lastRec.seen)
          => /\ ~lastRec.out.patch.called
             /\ lastRec.out.fetched =
                   IF skipPipelineRun(lastRec.seen) THEN << >>
                   ELSE KidsFetched(lastRec.seen.refs, lastRec.steps, lastRec.errs)

\* A completed, unlabelled run with a throttled step has its overhead recorded
\* and no Patch made.
C35_Witness ==
    /\ ThrottledUnlabelled
    /\ IsDone(lastRec.seen)
    /\ ~lastRec.out.patch.called
    /\ lastRec.out.execution # << >>
    /\ lastRec.stored.label = NoLabel


\* C36: ReconcileOverhead requests a requeue exactly when the run it read is
\* not done and lists no child reference of kind TaskRun, so on each reconcile
\* until a TaskRun reference appears or the run is done and on none after; a
\* requeue comes with no error, no Patch, no fetch and no observation.
C36_RequeuedUntilStepsAreListedOrDone ==
    lastRec.kind = "reconcile"
    => /\ lastRec.out.result.requeue
          <=> /\ lastRec.get = "nil"
              /\ ~IsDone(lastRec.seen)
              /\ ~isPipelineRunGoing(lastRec.seen)
       /\ lastRec.out.result.requeue
          => /\ lastRec.out.result.err = "nil"
             /\ ~lastRec.out.patch.called
             /\ lastRec.out.fetched = << >>
             /\ lastRec.out.execution = << >>
             /\ lastRec.out.scheduling = << >>

\* A running run without a step reference is requeued.
C36_Witness ==
    /\ Reconciled
    /\ lastRec.seen.cond = "Unknown"
    /\ lastRec.seen.refs = << >>
    /\ lastRec.out.result.requeue
    /\ lastRec.out.result.err = "nil"


(***************************************************************************)
(* Claims about the wait-time filters (SpecWaitTime)                       *)
(***************************************************************************)

\* The latest event was an update handed to the object's wait-time filter.
WaitUpdated == lastWait.kind = "update"

\* The object was resolving its reference before the update / is after it.
WasResolving ==
    lastWait.old.cond # "nil" /\ lastWait.old.reason = Resolving(lastWait.old.kind)
StillResolving ==
    lastWait.new.cond = "Unknown" /\ lastWait.new.reason = Resolving(lastWait.new.kind)

\* C37: an update whose old and new condition reasons are both the resolving
\* reason adds no observation to the wait-time histogram, whether or not the
\* last-transition time changed; a changed time is logged, nothing more.
C37_StillResolvingObservesNothing ==
    (WaitUpdated /\ WasResolving /\ StillResolving)
    => /\ lastWait.out.observed = << >>
       /\ lastWait.out.logged <=> lastWait.old.ltt # lastWait.new.ltt
       /\ ~lastWait.out.result

\* A TaskRun stays resolving while its last-transition time moves: logged, not
\* observed.
C37_Witness ==
    /\ WaitUpdated /\ WasResolving /\ StillResolving
    /\ lastWait.new.kind = "TaskRun"
    /\ lastWait.new.ltt > lastWait.old.ltt
    /\ lastWait.out.logged
    /\ waitHist = << >>

\* C38: for an update whose new object is not done the filter observes once,
\* the new last-transition time minus the old one in milliseconds, when the
\* old reason is the resolving reason and the new one is not, and observes
\* nothing otherwise; an object going from resolving straight to done gets no
\* observation; Update, Create, Delete and Generic all return false.
C38_OneObservationWhenResolvingEnds ==
    /\ WaitUpdated
       => /\ ~lastWait.out.result
          /\ ~IsDone(lastWait.new)
             => lastWait.out.observed =
                   IF WasResolving /\ lastWait.new.cond # "nil" /\ ~StillResolving
                   THEN <<(lastWait.new.ltt - lastWait.old.ltt) * 1000>>
                   ELSE << >>
          /\ (WasResolving /\ IsDone(lastWait.new))
             => lastWait.out.observed = << >>
    /\ lastWait.kind \in {"create", "delete", "generic"} => ~lastWait.result

\* A PipelineRun leaves resolving two seconds after it entered it: 2000 is
\* observed.
C38_Witness ==
    /\ WaitUpdated /\ WasResolving
    /\ lastWait.new.kind = "PipelineRun"
    /\ lastWait.new.cond = "Unknown" /\ lastWait.new.reason = "Running"
    /\ lastWait.new.ltt = lastWait.old.ltt + 2
    /\ lastWait.out.observed = <<2000>>
    /\ waitHist = <<2000>>


(***************************************************************************)
(* Claims about startTimeEventFilter (SpecAnalysis)                        *)
(***************************************************************************)

\* The scheduled duration of run p in seconds, 0 when its creation or start
\* time is zero or absent, with the label of p's outcome.
ScheduledDurationOf(p) ==
    Observation(IF p.cond = "False" THEN FAILED ELSE SUCCEEDED,
                IF p.created = ZeroTime \/ p.start \in {ZeroTime, NoTime} THEN 0
                ELSE p.start - p.created,
                1000)

\* C39 as stated: startTimeEventFilter.Update records one scheduled-duration
\* observation, start minus creation in seconds and 0 when either is zero,
\* labelled by the run's outcome, for the update in which the run becomes
\* done, none for another update, and returns false.
C39_OneScheduledDurationOnCompletion ==
    startOut.set
    => /\ ~startOut.out.result
       /\ startOut.out.observed =
             IF ~IsDone(startOut.old) /\ IsDone(analysisIn.pr)
             THEN <<ScheduledDurationOf(analysisIn.pr)>>
             ELSE << >>


(***************************************************************************)
(* Claims about the range of the execution overhead (SpecAnalysis)         *)
(***************************************************************************)

\* Run creation <= run start <= each referenced step's creation <= run
\* completion, every referenced step being stored.
ConsistentRunTimestamps ==
    /\ analysisIn.pr.start # NoTime
    /\ analysisIn.pr.completion # NoTime
    /\ analysisIn.pr.created <= analysisIn.pr.start
    /\ \A i \in DOMAIN analysisIn.pr.refs :
          LET tr == analysisIn.trs[analysisIn.pr.refs[i].name]
          IN  /\ tr.exists
              /\ analysisIn.pr.start <= tr.created
              /\ tr.created <= analysisIn.pr.completion

\* C40 as stated: the execution overhead ReconcileOverhead records for a
\* completed run with consistent timestamps lies between 0 and 1.
C40_ExecutionOverheadIsAProportion ==
    (Analysed /\ ConsistentRunTimestamps)
    => \A i \in DOMAIN analysisOut.out.execution :
          /\ analysisOut.out.execution[i].den > 0
          /\ 0 <= analysisOut.out.execution[i].num
          /\ analysisOut.out.execution[i].num <= analysisOut.out.execution[i].den

====
